---- MODULE Spec2Model ----
(***************************************************************************)
(* Model of the MCP-Styles repository: the event-information server        *)
(* (fetch_sitemap, get_event_page, search_events, list_all_events and the  *)
(* helpers parseSitemap / extractTextFromHtml) and the design-standards    *)
(* server (seven tools over the Design-Token Document).                    *)
(*                                                                         *)
(* JavaScript strings are sequences of one-character strings.              *)
(***************************************************************************)
EXTENDS Integers, Sequences, FiniteSets, TLC

VARIABLES
    xmlAtoms,   \* SpecParse: the input of parseSitemap, as the atoms it was built from
    urls,       \* SpecParse: the list parseSitemap returned
    pcParse,    \* SpecParse: "init" before the call, "done" after
    htmlAtoms,  \* SpecExtract: the input of extractTextFromHtml, as the atoms it was built from
    text,       \* SpecExtract: the string extractTextFromHtml returned
    pcExtract,  \* SpecExtract: "init" before the call, "done" after
    calls,      \* event-information server: the table of tool invocations
    server,     \* the program this process runs: its McpServer name
    doc,        \* design-standards server: designStandards, the loaded document
    last,       \* design-standards server: the latest tool invocation and its result
    transports, \* HTTP endpoint: the Map from session id to transport
    instances,  \* HTTP endpoint: the transports constructed, each with its McpServer
    requests    \* HTTP endpoint: the /mcp requests being handled

parseVars == <<xmlAtoms, urls, pcParse>>
extractVars == <<htmlAtoms, text, pcExtract>>
eventVars == <<calls>>
designVars == <<doc, last>>
httpVars == <<transports, instances, requests>>
vars == <<parseVars, extractVars, eventVars, server, designVars, httpVars>>

(***************************************************************************)
(* Bounds                                                                  *)
(***************************************************************************)
MaxXmlAtoms == 6
MaxHtmlAtoms == 5
MaxInFlight == 1    \* invocations of the event-information server in flight at once
MaxLimit == 4       \* largest limit argument of list_all_events
MaxResultsArg == 3  \* largest maxResults argument below the default
MaxInclude == 2     \* longest includeComponents list
MaxTransports == 3  \* transports the HTTP endpoint constructs in one run
MaxRequests == 2    \* /mcp requests handled at once
MaxConcurrent == 2  \* SpecConcurrent: site-query invocations in flight at once

(***************************************************************************)
(* String primitives                                                       *)
(***************************************************************************)
Min(S) == CHOOSE x \in S : \A y \in S : x <= y

\* String.prototype.startsWith(lit, i-1): lit occurs in s at (1-based) index i
IsPrefixAt(s, i, lit) ==
    /\ i >= 1
    /\ i + Len(lit) - 1 <= Len(s)
    /\ \A k \in 1..Len(lit) : s[i + k - 1] = lit[k]

\* String.prototype.indexOf(lit, i-1) + 1: first index >= i where lit occurs, 0 if none
IndexOfFrom(s, lit, i) ==
    LET J == {j \in i..Len(s) : IsPrefixAt(s, j, lit)}
    IN  IF J = {} THEN 0 ELSE Min(J)

\* String.prototype.includes
Includes(s, lit) == \E j \in 1..(Len(s) + 1) : IsPrefixAt(s, j, lit)

RECURSIVE Flatten(_)
\* concatenation of a sequence of strings
Flatten(ss) == IF ss = <<>> THEN <<>> ELSE Head(ss) \o Flatten(Tail(ss))

Lowers == <<"a", "b", "c", "d", "e", "f", "g", "h", "i", "j", "k", "l", "m",
            "n", "o", "p", "q", "r", "s", "t", "u", "v", "w", "x", "y", "z">>
Uppers == <<"A", "B", "C", "D", "E", "F", "G", "H", "I", "J", "K", "L", "M",
            "N", "O", "P", "Q", "R", "S", "T", "U", "V", "W", "X", "Y", "Z">>
Digits == {"0", "1", "2", "3", "4", "5", "6", "7", "8", "9"}

\* String.prototype.toLowerCase, one character
LowerChar(c) ==
    IF \E i \in 1..26 : Uppers[i] = c
    THEN Lowers[CHOOSE i \in 1..26 : Uppers[i] = c]
    ELSE c

\* String.prototype.toUpperCase, one character
UpperChar(c) ==
    IF \E i \in 1..26 : Lowers[i] = c
    THEN Uppers[CHOOSE i \in 1..26 : Lowers[i] = c]
    ELSE c

\* String.prototype.toLowerCase
toLowerCase(s) == [i \in 1..Len(s) |-> LowerChar(s[i])]

\* the regular expression class \w
IsWordChar(c) == LowerChar(c) \in {Lowers[i] : i \in 1..26} \/ c \in Digits \/ c = "_"

\* the regular expression class \s
IsSpaceChar(c) == c \in {" ", "\t", "\n", "\r"}

\* the characters a regular expression's "." does not match
LineTerminators == {"\n", "\r"}

(***************************************************************************)
(* parseSitemap                                                            *)
(***************************************************************************)
LocOpen  == <<"<", "l", "o", "c", ">">>
LocClose == <<"<", "/", "l", "o", "c", ">">>

\* /<loc>(.*?)<\/loc>/ matches at index p: "<loc>" is at p, and the first
\* "</loc>" after it is reached without crossing a line terminator
\* ("." excludes line terminators, so a later "</loc>" cannot help either).
LocMatchAt(xml, p) ==
    /\ IsPrefixAt(xml, p, LocOpen)
    /\ LET c == IndexOfFrom(xml, LocClose, p + Len(LocOpen))
       IN  /\ c # 0
           /\ \A k \in (p + Len(LocOpen))..(c - 1) : xml[k] \notin LineTerminators

RECURSIVE urlRegexExec(_, _)
\* the while loop over urlRegex.exec(xml), lastIndex = i - 1: the captures pushed
urlRegexExec(xml, i) ==
    LET P == {p \in i..Len(xml) : LocMatchAt(xml, p)}
    IN  IF P = {} THEN <<>>
        ELSE LET p == Min(P)
                 c == IndexOfFrom(xml, LocClose, p + Len(LocOpen))
             IN  <<SubSeq(xml, p + Len(LocOpen), c - 1)>>
                     \o urlRegexExec(xml, c + Len(LocClose))

\* parseSitemap that keeps only the first occurrence of each capture
parseSitemap_deduplicated(xml) ==
    LET all  == urlRegexExec(xml, 1)
        kept == {i \in 1..Len(all) : \A j \in 1..(i - 1) : all[j] # all[i]}
    IN  [k \in 1..Cardinality(kept) |->
            all[CHOOSE i \in kept : Cardinality({j \in kept : j <= i}) = k]]

parseSitemap(xml) == urlRegexExec(xml, 1)

(***************************************************************************)
(* extractTextFromHtml                                                     *)
(***************************************************************************)
\* lit (given in lower case) occurs in s at index i, letter case ignored (the i flag)
IsPrefixAtCI(s, i, lit) ==
    /\ i >= 1
    /\ i + Len(lit) - 1 <= Len(s)
    /\ \A k \in 1..Len(lit) : LowerChar(s[i + k - 1]) = lit[k]

IndexOfFromCI(s, lit, i) ==
    LET J == {j \in i..Len(s) : IsPrefixAtCI(s, j, lit)}
    IN  IF J = {} THEN 0 ELSE Min(J)

ScriptTag == <<"s", "c", "r", "i", "p", "t">>
StyleTag  == <<"s", "t", "y", "l", "e">>
OpenerOf(tag) == <<"<">> \o tag
CloserOf(tag) == <<"<", "/">> \o tag \o <<">">>

\* /<tag\b[^<]*(?:(?!<\/tag>)<[^<]*)*<\/tag>/i matches at index i: "<tag" is
\* at i, a word boundary follows it, and a "</tag>" occurs later. Every "<"
\* that does not start "</tag>" is consumed by the group, so the match ends
\* with the first "</tag>" after the opener; BlockEnd is its last index.
BlockEnd(s, i, tag) ==
    LET after == i + Len(OpenerOf(tag))
        c == IndexOfFromCI(s, CloserOf(tag), after)
    IN  IF /\ IsPrefixAtCI(s, i, OpenerOf(tag))
           /\ (after > Len(s) \/ ~IsWordChar(s[after]))
           /\ c # 0
        THEN c + Len(CloserOf(tag)) - 1
        ELSE 0

RECURSIVE removeBlocks(_, _, _)
\* html.replace(/<tag\b...<\/tag>/gi, ''), scanning from index i
removeBlocks(s, tag, i) ==
    IF i > Len(s) THEN <<>>
    ELSE IF BlockEnd(s, i, tag) # 0
         THEN removeBlocks(s, tag, BlockEnd(s, i, tag) + 1)
         ELSE <<s[i]>> \o removeBlocks(s, tag, i + 1)

\* /<[^>]+>/ matches at index i: "<" at i, at least one character other than
\* ">", then the first ">"; TagEnd is the index of that ">"
TagEnd(s, i) ==
    LET c == IndexOfFrom(s, <<">">>, i + 1)
    IN  IF s[i] = "<" /\ c >= i + 2 THEN c ELSE 0

RECURSIVE stripTags(_, _)
\* text.replace(/<[^>]+>/g, ' '), scanning from index i
stripTags(s, i) ==
    IF i > Len(s) THEN <<>>
    ELSE IF TagEnd(s, i) # 0
         THEN <<" ">> \o stripTags(s, TagEnd(s, i) + 1)
         ELSE <<s[i]>> \o stripTags(s, i + 1)

RECURSIVE replaceAll(_, _, _, _)
\* text.replace(/lit/g, rep), scanning from index i
replaceAll(s, lit, rep, i) ==
    IF i > Len(s) THEN <<>>
    ELSE IF IsPrefixAt(s, i, lit)
         THEN rep \o replaceAll(s, lit, rep, i + Len(lit))
         ELSE <<s[i]>> \o replaceAll(s, lit, rep, i + 1)

EntNbsp == <<"&", "n", "b", "s", "p", ";">>
EntAmp  == <<"&", "a", "m", "p", ";">>
EntLt   == <<"&", "l", "t", ";">>
EntGt   == <<"&", "g", "t", ";">>
EntQuot == <<"&", "q", "u", "o", "t", ";">>
EntApos == <<"&", "#", "3", "9", ";">>

\* the six entity replacements, in the order the code applies them
decodeEntities(s) ==
    LET t1 == replaceAll(s,  EntNbsp, <<" ">>, 1)
        t2 == replaceAll(t1, EntAmp,  <<"&">>, 1)
        t3 == replaceAll(t2, EntLt,   <<"<">>, 1)
        t4 == replaceAll(t3, EntGt,   <<">">>, 1)
        t5 == replaceAll(t4, EntQuot, <<"\"">>, 1)
    IN  replaceAll(t5, EntApos, <<"'">>, 1)

RECURSIVE collapseSpace(_, _)
\* text.replace(/\s+/g, ' '), scanning from index i
collapseSpace(s, i) ==
    IF i > Len(s) THEN <<>>
    ELSE IF IsSpaceChar(s[i])
         THEN LET rest == {j \in i..Len(s) : ~IsSpaceChar(s[j])}
              IN  <<" ">> \o (IF rest = {} THEN <<>> ELSE collapseSpace(s, Min(rest)))
         ELSE <<s[i]>> \o collapseSpace(s, i + 1)

\* String.prototype.trim
trim(s) ==
    LET keep == {j \in 1..Len(s) : ~IsSpaceChar(s[j])}
    IN  IF keep = {} THEN <<>>
        ELSE SubSeq(s, Min(keep), CHOOSE j \in keep : \A k \in keep : k <= j)

extractTextFromHtml(html) ==
    LET noScript == removeBlocks(html, ScriptTag, 1)
        noStyle  == removeBlocks(noScript, StyleTag, 1)
        noTags   == stripTags(noStyle, 1)
        decoded  == decodeEntities(noTags)
    IN  trim(collapseSpace(decoded, 1))

(***************************************************************************)
(* SpecParse: parseSitemap applied to bounded inputs                       *)
(***************************************************************************)
XmlAtoms == {LocOpen, LocClose, <<"a">>, <<"B">>, <<"\n">>, <<"<">>}

SeqsUpTo(S, n) == UNION {[1..k -> S] : k \in 0..n}

ParseIdle == xmlAtoms = <<>> /\ urls = <<>> /\ pcParse = "init"
ExtractIdle == htmlAtoms = <<>> /\ text = <<>> /\ pcExtract = "init"
HttpIdle == transports = {} /\ instances = <<>> /\ requests = <<>>
ServersIdle == calls = <<>> /\ server = "none" /\ doc = <<>> /\ last = <<>> /\ HttpIdle

InitParse ==
    /\ xmlAtoms \in SeqsUpTo(XmlAtoms, MaxXmlAtoms)
    /\ urls = <<>>
    /\ pcParse = "init"
    /\ ExtractIdle
    /\ ServersIdle

CallParseSitemap ==
    /\ pcParse = "init"
    /\ urls' = parseSitemap(Flatten(xmlAtoms))
    /\ pcParse' = "done"
    /\ UNCHANGED <<xmlAtoms, extractVars, eventVars, server, designVars, httpVars>>

NextParse == CallParseSitemap

SpecParse == InitParse /\ [][NextParse]_vars

(***************************************************************************)
(* SpecExtract: extractTextFromHtml applied to bounded inputs              *)
(***************************************************************************)
ScriptOpenAtom == <<"<", "s", "c", "r", "i", "p", "t", ">">>
\* an opener in upper case with an attribute holding an angle bracket
ScriptAttrAtom == <<"<", "S", "C", "R", "I", "P", "T", " ", "a", "=", "\"", "<", "\"", ">">>
ScriptCloseAtom == CloserOf(ScriptTag)
StyleOpenAtom == <<"<", "s", "t", "y", "l", "e", ">">>
StyleCloseAtom == CloserOf(StyleTag)

HtmlAtoms == {ScriptOpenAtom, ScriptAttrAtom, ScriptCloseAtom, StyleOpenAtom,
              StyleCloseAtom, <<"x">>, EntLt, EntAmp, <<">">>}

InitExtract ==
    /\ htmlAtoms \in SeqsUpTo(HtmlAtoms, MaxHtmlAtoms)
    /\ text = <<>>
    /\ pcExtract = "init"
    /\ ParseIdle
    /\ ServersIdle

CallExtractTextFromHtml ==
    /\ pcExtract = "init"
    /\ text' = extractTextFromHtml(Flatten(htmlAtoms))
    /\ pcExtract' = "done"
    /\ UNCHANGED <<htmlAtoms, parseVars, eventVars, server, designVars, httpVars>>

NextExtract == CallExtractTextFromHtml

SpecExtract == InitExtract /\ [][NextExtract]_vars

(***************************************************************************)
(* Event-information server: registry, fetcher, tool handlers              *)
(***************************************************************************)
SitemapPath == <<"/", "s", "i", "t", "e", "m", "a", "p", ".", "x", "m", "l">>

EVENT_SITES ==
    [pmc |-> [name |-> "Pan-Mass Challenge",
              baseUrl |-> <<"h", "t", "t", "p", "s", ":", "/", "/", "w", "w", "w", ".",
                            "p", "m", "c", ".", "o", "r", "g">>,
              sitemapPath |-> SitemapPath],
     unpaved |-> [name |-> "Unpaved",
              baseUrl |-> <<"h", "t", "t", "p", "s", ":", "/", "/", "w", "w", "w", ".",
                            "u", "n", "p", "a", "v", "e", "d", ".", "o", "r", "g">>,
              sitemapPath |-> SitemapPath],
     wintercycle |-> [name |-> "Winter Cycle",
              baseUrl |-> <<"h", "t", "t", "p", "s", ":", "/", "/", "w", "w", "w", ".",
                            "w", "i", "n", "t", "e", "r", "c", "y", "c", "l", "e", ".",
                            "o", "r", "g">>,
              sitemapPath |-> SitemapPath]]

\* Object.keys(EVENT_SITES), which the error text joins with ", "
VALID_SITES == <<"pmc", "unpaved", "wintercycle">>

\* an optional argument the caller left out
undefined == "undefined"

\* a fetch outcome: kind "ok" (2xx, with body), "status" (response.ok false)
\* or "fault" (fetch rejected)
Response(kind, status, body) == [kind |-> kind, status |-> status, body |-> body]
NoResponse == Response("none", 0, <<>>)

\* fetchContent whose Error does not name the URL
fetchContent_noUrl(url, resp) ==
    IF resp.kind = "ok"
    THEN [thrown |-> FALSE, value |-> resp.body, message |-> <<>>]
    ELSE [thrown |-> TRUE, value |-> <<>>,
          message |-> <<"Failed to fetch from ", <<>>, ": ",
                        IF resp.kind = "status"
                        THEN <<"HTTP error! status: ", resp.status>>
                        ELSE <<"fetch failed">> >>]

\* fetchContent: the body, or the Error it throws
fetchContent(url, resp) ==
    IF resp.kind = "ok"
    THEN [thrown |-> FALSE, value |-> resp.body, message |-> <<>>]
    ELSE [thrown |-> TRUE, value |-> <<>>,
          message |-> <<"Failed to fetch from ", url, ": ",
                        IF resp.kind = "status"
                        THEN <<"HTTP error! status: ", resp.status>>
                        ELSE <<"fetch failed">> >>]

\* the envelope { content: [{ type: "text", text }] }; isError = FALSE stands
\* for an envelope without the isError key (the code never writes isError: false)
Envelope(txt, isError) ==
    [content |-> <<[type |-> "text", text |-> txt]>>, isError |-> isError]

\* the catch block of every handler
CaughtEnvelope(message) == Envelope([k |-> "error", message |-> message], TRUE)

\* ErrorEnvelope with the isError key forgotten
ErrorEnvelope_unflagged(txt) == Envelope(txt, FALSE)

\* an explicit error return of a handler: { content: [...], isError: true }
ErrorEnvelope(txt) == Envelope(txt, TRUE)

\* ZeroResultEnvelope returned as an error
ZeroResultEnvelope_asError(txt) == Envelope(txt, TRUE)

\* the return of a search that matched nothing: content only, no isError key
ZeroResultEnvelope(txt) == Envelope(txt, FALSE)

UnknownSiteEnvelope(site) ==
    ErrorEnvelope([k |-> "unknown_site", site |-> site, valid |-> VALID_SITES])

\* a slot of the invocation table
Idle == [pc |-> "idle", tool |-> "none", args |-> <<>>, fetchUrl |-> <<>>,
         fetched |-> <<>>, resp |-> NoResponse, env |-> Envelope([k |-> "none"], FALSE)]
Fetching(tool, args, fetchUrl) ==
    [Idle EXCEPT !.pc = "fetching", !.tool = tool, !.args = args, !.fetchUrl = fetchUrl]
\* Returned through one result buffer shared by all invocations
Returned_sharedBuffer(tool, args, fetched, resp, env) ==
    [pc |-> "done", tool |-> tool, args |-> args, fetchUrl |-> <<>>,
     fetched |-> fetched, resp |-> resp,
     env |-> IF \E j \in DOMAIN calls : calls[j].pc = "done"
             THEN calls[CHOOSE j \in DOMAIN calls : calls[j].pc = "done"].env
             ELSE env]

Returned(tool, args, fetched, resp, env) ==
    [pc |-> "done", tool |-> tool, args |-> args, fetchUrl |-> <<>>,
     fetched |-> fetched, resp |-> resp, env |-> env]

\* the host takes the returned envelope; the slot is free for the next invocation
release(i) ==
    /\ calls[i].pc = "done"
    /\ calls' = [calls EXCEPT ![i] = Idle]
    /\ UNCHANGED <<parseVars, extractVars, server, designVars, httpVars>>

sitemapUrlOf(site) == EVENT_SITES[site].baseUrl \o EVENT_SITES[site].sitemapPath

\* ---- fetch_sitemap ----
fetch_sitemap_text(site, sitemapXml) ==
    LET found == parseSitemap(sitemapXml)
    IN  [k |-> "sitemap", name |-> EVENT_SITES[site].name,
         count |-> Len(found), urls |-> found]

fetch_sitemap_call(i, site) ==
    /\ server = "event-info-server"
    /\ calls[i].pc = "idle"
    /\ LET args == [site |-> site]
       IN  calls' = [calls EXCEPT ![i] =
               IF site \notin DOMAIN EVENT_SITES
               THEN Returned("fetch_sitemap", args, <<>>, NoResponse, UnknownSiteEnvelope(site))
               ELSE Fetching("fetch_sitemap", args, sitemapUrlOf(site))]
    /\ UNCHANGED <<parseVars, extractVars, server, designVars, httpVars>>

fetch_sitemap_resume(i, resp) ==
    /\ calls[i].pc = "fetching"
    /\ calls[i].tool = "fetch_sitemap"
    /\ LET c == calls[i]
           r == fetchContent(c.fetchUrl, resp)
       IN  calls' = [calls EXCEPT ![i] =
               Returned(c.tool, c.args, <<c.fetchUrl>>, resp,
                   IF r.thrown THEN CaughtEnvelope(r.message)
                   ELSE Envelope(fetch_sitemap_text(c.args.site, r.value), FALSE))]
    /\ UNCHANGED <<parseVars, extractVars, server, designVars, httpVars>>

\* ---- get_event_page ----
HttpPrefix  == <<"h", "t", "t", "p", ":", "/", "/">>
HttpsPrefix == <<"h", "t", "t", "p", "s", ":", "/", "/">>

isAbsoluteUrl(url) == IsPrefixAt(url, 1, HttpPrefix) \/ IsPrefixAt(url, 1, HttpsPrefix)

\* joinUrl that always inserts a slash
joinUrl_alwaysSlash(baseUrl, url) == baseUrl \o <<"/">> \o url

\* the join of line 165
joinUrl(baseUrl, url) ==
    IF IsPrefixAt(url, 1, <<"/">>) THEN baseUrl \o url ELSE baseUrl \o <<"/">> \o url

displayContentOf(content, extractText) ==
    IF extractText THEN extractTextFromHtml(content) ELSE content

get_event_page_call(i, url, site, extractText) ==
    /\ server = "event-info-server"
    /\ calls[i].pc = "idle"
    /\ LET args == [url |-> url, site |-> site, extractText |-> extractText]
       IN  calls' = [calls EXCEPT ![i] =
               IF isAbsoluteUrl(url)
               THEN Fetching("get_event_page", args, url)
               ELSE IF site # undefined
               THEN IF site \notin DOMAIN EVENT_SITES
                    THEN Returned("get_event_page", args, <<>>, NoResponse,
                                  UnknownSiteEnvelope(site))
                    ELSE Fetching("get_event_page", args,
                                  joinUrl(EVENT_SITES[site].baseUrl, url))
               ELSE Returned("get_event_page", args, <<>>, NoResponse,
                             ErrorEnvelope([k |-> "need_url_or_site"]))]
    /\ UNCHANGED <<parseVars, extractVars, server, designVars, httpVars>>

get_event_page_resume(i, resp) ==
    /\ calls[i].pc = "fetching"
    /\ calls[i].tool = "get_event_page"
    /\ LET c == calls[i]
           r == fetchContent(c.fetchUrl, resp)
       IN  calls' = [calls EXCEPT ![i] =
               Returned(c.tool, c.args, <<c.fetchUrl>>, resp,
                   IF r.thrown THEN CaughtEnvelope(r.message)
                   ELSE Envelope([k |-> "content", url |-> c.fetchUrl,
                                  body |-> displayContentOf(r.value, c.args.extractText)],
                                 FALSE))]
    /\ UNCHANGED <<parseVars, extractVars, server, designVars, httpVars>>

\* ---- search_events ----
\* urlMatches with the pattern left in the caller's letter case
urlMatches_patternNotFolded(url, pattern, caseInsensitive) ==
    LET searchUrl == IF caseInsensitive THEN toLowerCase(url) ELSE url
    IN  Includes(searchUrl, pattern)

\* the filter callback of lines 240-244
urlMatches(url, pattern, caseInsensitive) ==
    LET searchPattern == IF caseInsensitive THEN toLowerCase(pattern) ELSE pattern
        searchUrl == IF caseInsensitive THEN toLowerCase(url) ELSE url
    IN  Includes(searchUrl, searchPattern)

search_events_env(site, pattern, caseInsensitive, sitemapXml) ==
    LET found == parseSitemap(sitemapXml)
        Keep(url) == urlMatches(url, pattern, caseInsensitive)
        matches == SelectSeq(found, Keep)
    IN  IF Len(matches) = 0
        THEN ZeroResultEnvelope([k |-> "no_urls", pattern |-> pattern,
                                 name |-> EVENT_SITES[site].name])
        ELSE Envelope([k |-> "found", count |-> Len(matches),
                       plural |-> Len(matches) # 1, pattern |-> pattern,
                       name |-> EVENT_SITES[site].name, urls |-> matches], FALSE)

search_events_call(i, site, pattern, caseInsensitive) ==
    /\ server = "event-info-server"
    /\ calls[i].pc = "idle"
    /\ LET args == [site |-> site, pattern |-> pattern, caseInsensitive |-> caseInsensitive]
       IN  calls' = [calls EXCEPT ![i] =
               IF site \notin DOMAIN EVENT_SITES
               THEN Returned("search_events", args, <<>>, NoResponse, UnknownSiteEnvelope(site))
               ELSE Fetching("search_events", args, sitemapUrlOf(site))]
    /\ UNCHANGED <<parseVars, extractVars, server, designVars, httpVars>>

search_events_resume(i, resp) ==
    /\ calls[i].pc = "fetching"
    /\ calls[i].tool = "search_events"
    /\ LET c == calls[i]
           r == fetchContent(c.fetchUrl, resp)
       IN  calls' = [calls EXCEPT ![i] =
               Returned(c.tool, c.args, <<c.fetchUrl>>, resp,
                   IF r.thrown THEN CaughtEnvelope(r.message)
                   ELSE search_events_env(c.args.site, c.args.pattern,
                                          c.args.caseInsensitive, r.value))]
    /\ UNCHANGED <<parseVars, extractVars, server, designVars, httpVars>>

\* ---- list_all_events ----
\* limitedUrlsOf with limit = 0 treated as a limit
limitedUrlsOf_zeroLimits(found, limit) ==
    IF limit >= 0
    THEN SubSeq(found, 1, IF limit < Len(found) THEN limit ELSE Len(found))
    ELSE found

\* urls.slice(0, limit) for limit > 0, else urls (line 312)
limitedUrlsOf(found, limit) ==
    IF limit > 0
    THEN SubSeq(found, 1, IF limit < Len(found) THEN limit ELSE Len(found))
    ELSE found

\* line 313
hasMoreOf(found, limit) == limit > 0 /\ Len(found) > limit

list_all_events_text(site, limit, sitemapXml) ==
    LET found == parseSitemap(sitemapXml)
        hasMore == hasMoreOf(found, limit)
    IN  [k |-> "list", name |-> EVENT_SITES[site].name, total |-> Len(found),
         showingFirst |-> IF hasMore THEN <<limit>> ELSE <<>>,
         urls |-> limitedUrlsOf(found, limit),
         andMore |-> IF hasMore THEN <<Len(found) - limit>> ELSE <<>>]

list_all_events_call(i, site, limit) ==
    /\ server = "event-info-server"
    /\ calls[i].pc = "idle"
    /\ LET args == [site |-> site, limit |-> limit]
       IN  calls' = [calls EXCEPT ![i] =
               IF site \notin DOMAIN EVENT_SITES
               THEN Returned("list_all_events", args, <<>>, NoResponse, UnknownSiteEnvelope(site))
               ELSE Fetching("list_all_events", args, sitemapUrlOf(site))]
    /\ UNCHANGED <<parseVars, extractVars, server, designVars, httpVars>>

list_all_events_resume(i, resp) ==
    /\ calls[i].pc = "fetching"
    /\ calls[i].tool = "list_all_events"
    /\ LET c == calls[i]
           r == fetchContent(c.fetchUrl, resp)
       IN  calls' = [calls EXCEPT ![i] =
               Returned(c.tool, c.args, <<c.fetchUrl>>, resp,
                   IF r.thrown THEN CaughtEnvelope(r.message)
                   ELSE Envelope(list_all_events_text(c.args.site, c.args.limit, r.value),
                                 FALSE))]
    /\ UNCHANGED <<parseVars, extractVars, server, designVars, httpVars>>

(***************************************************************************)
(* Design-standards server: the Design-Token Document                      *)
(*                                                                         *)
(* A JSON value is a record: t is its type ("obj", "str", "null", and      *)
(* "undefined" for a missing property), e the entries of an object in      *)
(* declaration order, s the characters of a string. A JSON array is an     *)
(* object whose keys are its indices.                                      *)
(***************************************************************************)
Obj(entries) == [t |-> "obj", e |-> entries, s |-> <<>>]
Str(chars) == [t |-> "str", e |-> <<>>, s |-> chars]
Null == [t |-> "null", e |-> <<>>, s |-> <<>>]
Undefined == [t |-> "undefined", e |-> <<>>, s |-> <<>>]
Entry(key, value) == [k |-> key, v |-> value]

\* "key in obj" for an own property
HasKey(node, key) == node.t = "obj" /\ \E j \in 1..Len(node.e) : node.e[j].k = key

\* node[key]; reading a property of null or undefined throws (see Throws)
Get(node, key) ==
    IF HasKey(node, key)
    THEN node.e[CHOOSE j \in 1..Len(node.e) : node.e[j].k = key].v
    ELSE Undefined

\* property access or Object.entries on this value raises a TypeError
Throws(node) == node.t \in {"null", "undefined"}

\* !!node
Truthy(node) == node.t = "obj" \/ (node.t = "str" /\ node.s # <<>>)

\* Object.entries(node) of an object (a string's entries are its indexed
\* characters; no modelled document puts a string where an object is iterated)
ObjectEntries(node) == IF node.t = "obj" THEN node.e ELSE <<>>

\* Object.keys(node)
ObjectKeys(node) == [j \in 1..Len(ObjectEntries(node)) |-> ObjectEntries(node)[j].k]

RECURSIVE join(_, _)
\* Array.prototype.join
join(parts, sep) ==
    IF parts = <<>> THEN <<>>
    ELSE IF Len(parts) = 1 THEN parts[1]
    ELSE parts[1] \o sep \o join(Tail(parts), sep)

RECURSIVE JSONstringify(_)
\* JSON.stringify: the value as printed, where a property whose value is
\* undefined is left out (JSON.stringify(undefined) is undefined itself)
JSONstringify(node) ==
    IF node.t # "obj" THEN node
    ELSE LET Defined(en) == en.v.t # "undefined"
             kept == SelectSeq(node.e, Defined)
         IN  Obj([j \in 1..Len(kept) |-> Entry(kept[j].k, JSONstringify(kept[j].v))])

JsonEnvelope(node) == Envelope([k |-> "json", value |-> JSONstringify(node)], FALSE)

\* an omitted optional string argument (the code tests only its truthiness)
omitted == <<>>

\* the property names read from the document and the names given as arguments
K ==
    [ accessibility |-> <<"a", "c", "c", "e", "s", "s", "i", "b", "i", "l", "i", "t", "y">>,
      admin |-> <<"a", "d", "m", "i", "n">>,
      all |-> <<"a", "l", "l">>,
      assets |-> <<"a", "s", "s", "e", "t", "s">>,
      base |-> <<"b", "a", "s", "e">>,
      borderRadius |-> <<"b", "o", "r", "d", "e", "r", "R", "a", "d", "i", "u", "s">>,
      boxShadow |-> <<"b", "o", "x", "S", "h", "a", "d", "o", "w">>,
      brands |-> <<"b", "r", "a", "n", "d", "s">>,
      buttons |-> <<"b", "u", "t", "t", "o", "n", "s">>,
      cards |-> <<"c", "a", "r", "d", "s">>,
      colors |-> <<"c", "o", "l", "o", "r", "s">>,
      component |-> <<"c", "o", "m", "p", "o", "n", "e", "n", "t">>,
      contrast |-> <<"c", "o", "n", "t", "r", "a", "s", "t">>,
      css |-> <<"c", "s", "s">>,
      cssRules |-> <<"c", "s", "s", "R", "u", "l", "e", "s">>,
      fontFamily |-> <<"f", "o", "n", "t", "F", "a", "m", "i", "l", "y">>,
      fontFiles |-> <<"f", "o", "n", "t", "F", "i", "l", "e", "s">>,
      h1 |-> <<"h", "1">>,
      hover |-> <<"h", "o", "v", "e", "r">>,
      logo |-> <<"l", "o", "g", "o">>,
      mediaQueries |-> <<"m", "e", "d", "i", "a", "Q", "u", "e", "r", "i", "e", "s">>,
      modals |-> <<"m", "o", "d", "a", "l", "s">>,
      name |-> <<"n", "a", "m", "e">>,
      note |-> <<"n", "o", "t", "e">>,
      pmc |-> <<"p", "m", "c">>,
      primary |-> <<"p", "r", "i", "m", "a", "r", "y">>,
      sassVariables |-> <<"s", "a", "s", "s", "V", "a", "r", "i", "a", "b", "l", "e", "s">>,
      shortName |-> <<"s", "h", "o", "r", "t", "N", "a", "m", "e">>,
      spacing |-> <<"s", "p", "a", "c", "i", "n", "g">>,
      typography |-> <<"t", "y", "p", "o", "g", "r", "a", "p", "h", "y">>,
      unit |-> <<"u", "n", "i", "t">>,
      unknown |-> <<"u", "n", "k", "n", "o", "w", "n">>,
      unpaved |-> <<"u", "n", "p", "a", "v", "e", "d">>,
      usage |-> <<"u", "s", "a", "g", "e">>,
      wintercycle |-> <<"w", "i", "n", "t", "e", "r", "c", "y", "c", "l", "e">> ]

DocA ==
    Obj(<<
      Entry(K.brands, Obj(<<
          Entry(K.pmc, Obj(<<
              Entry(K.name, Str(<<"P", "a", "n", "-", "M", "a", "s", "s">>)),
              Entry(K.shortName, Str(<<"P", "M", "C">>)),
              Entry(K.css, Obj(<<
                  Entry(K.colors, Obj(<<
                      Entry(<<"-", "-", "p", "r", "i", "m", "a", "r", "y">>, Str(<<"#", "A", "B", "2", "9", "2", "C">>)),
                      Entry(<<"-", "-", "i", "n", "k">>, Str(<<"#", "1", "1", "1">>)) >>)),
                  Entry(K.fontFiles, Obj(<<
                      Entry(<<"-", "-", "f", "o", "n", "t", "-", "u", "r", "l">>, Str(<<"a", ".", "w", "o", "f", "f">>)) >>)),
                  Entry(K.borderRadius, Obj(<<
                      Entry(<<"-", "-", "r", "a", "d", "i", "u", "s">>, Str(<<"4", "p", "x">>)) >>)) >>)),
              Entry(K.assets, Obj(<<
                  Entry(K.logo, Str(<<"p", "m", "c", ".", "s", "v", "g">>)) >>)) >>)),
          Entry(K.unpaved, Obj(<<
              Entry(K.name, Str(<<"U", "n", "p", "a", "v", "e", "d">>)),
              Entry(K.shortName, Str(<<"U", "N", "P">>)) >>)) >>)),
      Entry(K.cssRules, Obj(<<
          Entry(K.buttons, Obj(<<
              Entry(K.css, Str(<<"p", "a", "d", "d", "i", "n", "g", ":", " ", "8", "p", "x", ";">>)),
              Entry(K.primary, Obj(<<
                  Entry(K.css, Str(<<"c", "o", "l", "o", "r", ":", " ", "r", "e", "d", ";">>)) >>)),
              Entry(K.hover, Obj(<<
                  Entry(K.css, Str(<<"o", "p", "a", "c", "i", "t", "y", ":", " ", "0", ".", "9", ";">>)) >>)) >>)),
          Entry(K.cards, Obj(<<
              Entry(K.base, Obj(<<
                  Entry(K.css, Str(<<"m", "a", "r", "g", "i", "n", ":", " ", "0", ";">>)) >>)),
              Entry(K.note, Str(<<"f", "l", "a", "t">>)) >>)),
          Entry(K.typography, Obj(<<
              Entry(K.h1, Obj(<<
                  Entry(K.css, Str(<<"f", "o", "n", "t", "-", "s", "i", "z", "e", ":", " ", "2", "e", "m", ";">>)) >>)) >>)) >>)),
      Entry(K.usage, Obj(<<
          Entry(K.colors, Obj(<<
              Entry(K.primary, Str(<<"U", "s", "e", " ", "P", "r", "i", "m", "a", "r", "y", " ", "f", "o", "r", " ", "a", "c", "t", "i", "o", "n", "s">>)) >>)),
          Entry(K.typography, Obj(<<
              Entry(<<"0">>, Str(<<"o", "n", "e", " ", "h", "1">>)) >>)) >>)) >>)

DocB ==
    Obj(<<
      Entry(K.brands, Obj(<<
          Entry(K.pmc, Obj(<<
              Entry(K.name, Str(<<"P", "a", "n", "-", "M", "a", "s", "s">>)),
              Entry(K.shortName, Str(<<"P", "M", "C">>)),
              Entry(K.css, Obj(<<
                  Entry(K.fontFamily, Obj(<<
                      Entry(<<"-", "-", "f", "o", "n", "t">>, Str(<<"P", "r", "i", "m", "a", "r", "y", " ", "S", "a", "n", "s">>)) >>)) >>)) >>)),
          Entry(K.admin, Obj(<<
              Entry(K.name, Str(<<"A", "d", "m", "i", "n">>)),
              Entry(K.shortName, Str(<<"A", "D", "M">>)),
              Entry(K.css, Obj(<<
                  Entry(K.colors, Obj(<<
                      Entry(<<"-", "-", "P", "R", "I", "M", "A", "R", "Y">>, Str(<<"#", "a", "b", "2", "9", "2", "c">>)) >>)) >>)),
              Entry(K.sassVariables, Obj(<<
                  Entry(K.primary, Str(<<"#", "A", "B", "2", "9", "2", "C">>)) >>)) >>)) >>)),
      Entry(K.cssRules, Obj(<<
          Entry(K.modals, Obj(<<
              Entry(K.hover, Obj(<<
                  Entry(K.css, Str(<<"t", "o", "p", ":", " ", "0", ";">>)) >>)),
              Entry(K.css, Str(<<"z", "-", "i", "n", "d", "e", "x", ":", " ", "9", ";">>)) >>)),
          Entry(K.buttons, Obj(<<
              Entry(K.css, Str(<<"b", "o", "r", "d", "e", "r", ":", " ", "0", ";">>)) >>)),
          Entry(K.spacing, Obj(<<
              Entry(K.unit, Str(<<"8", "p", "x">>)) >>)) >>)),
      Entry(K.usage, Obj(<<
          Entry(K.colors, Obj(<<
              Entry(K.note, Str(<<"c", "o", "n", "t", "r", "a", "s", "t">>)) >>)),
          Entry(K.typography, Obj(<<
              Entry(K.note, Str(<<"s", "c", "a", "l", "e">>)) >>)),
          Entry(K.spacing, Obj(<<
              Entry(K.note, Str(<<"g", "r", "i", "d">>)) >>)),
          Entry(K.accessibility, Obj(<<
              Entry(K.note, Str(<<"A", "A">>)) >>)) >>)) >>)

\* the documents the process may have loaded at start
Docs == {DocA, DocB}

designStandards == doc

VALID_BRANDS == ObjectKeys(Get(designStandards, K.brands))

(***************************************************************************)
(* searchDesignStandards                                                   *)
(***************************************************************************)
\* keyMatches that never holds
keyMatches_never(key, pathString, searchTerm, caseSensitive) == FALSE

\* the test of lines 117-120: the key, or the lower-cased dotted path
keyMatches(key, pathString, searchTerm, caseSensitive) ==
    LET searchKey == IF caseSensitive THEN key ELSE toLowerCase(key)
    IN  Includes(searchKey, searchTerm) \/ Includes(toLowerCase(pathString), searchTerm)

\* valueMatches with the value left in its own letter case
valueMatches_valueNotFolded(value, searchTerm, caseSensitive) ==
    Includes(value, searchTerm)

\* the test of lines 129-130 on a string value
valueMatches(value, searchTerm, caseSensitive) ==
    LET searchValue == IF caseSensitive THEN value ELSE toLowerCase(value)
    IN  Includes(searchValue, searchTerm)

RECURSIVE searchObject(_, _, _, _)
\* the records pushed by the loop of searchObject over the entries given,
\* path being the keys above them
searchObject(entries, path, searchTerm, caseSensitive) ==
    IF entries = <<>> THEN <<>>
    ELSE LET key == Head(entries).k
             value == Head(entries).v
             currentPath == Append(path, key)
             pathString == join(currentPath, <<".">>)
             record == [path |-> pathString, key |-> key, value |-> value]
             byKey == IF keyMatches(key, pathString, searchTerm, caseSensitive)
                      THEN <<record>> ELSE <<>>
             byValue ==
                 IF value.t = "str"
                 THEN IF valueMatches(value.s, searchTerm, caseSensitive)
                      THEN <<record>> ELSE <<>>
                 ELSE IF value.t = "obj"
                 THEN searchObject(value.e, currentPath, searchTerm, caseSensitive)
                 ELSE <<>>
         IN  byKey \o byValue \o searchObject(Tail(entries), path, searchTerm, caseSensitive)

\* searchDesignStandards that searches for the query as typed
searchDesignStandards_queryNotFolded(query, caseSensitive) ==
    searchObject(ObjectEntries(designStandards), <<>>, query, caseSensitive)

searchDesignStandards(query, caseSensitive) ==
    LET searchTerm == IF caseSensitive THEN query ELSE toLowerCase(query)
    IN  searchObject(ObjectEntries(designStandards), <<>>, searchTerm, caseSensitive)

\* sliceFirst that cuts nothing
sliceFirst_uncut(results, maxResults) == results

\* results.slice(0, maxResults) for maxResults >= 0
sliceFirst(results, maxResults) ==
    SubSeq(results, 1, IF maxResults < Len(results) THEN maxResults ELSE Len(results))

\* the handler of search_design_standards
search_design_standards_env(query, caseSensitive, maxResults) ==
    LET results == searchDesignStandards(query, caseSensitive)
        limitedResults == sliceFirst(results, maxResults)
        hasMore == Len(results) > maxResults
    IN  IF Len(results) = 0
        THEN ZeroResultEnvelope([k |-> "no_results", query |-> query])
        ELSE Envelope([k |-> "results", count |-> Len(results),
                       plural |-> Len(results) # 1, query |-> query,
                       showingFirst |-> IF hasMore THEN <<maxResults>> ELSE <<>>,
                       shown |-> [j \in 1..Len(limitedResults) |->
                                     [path |-> limitedResults[j].path,
                                      value |-> limitedResults[j].value]]],
                      FALSE)

\* a completed invocation of a design-standards tool; results keeps what
\* searchDesignStandards returned to the handler
Result(tool, args, env, results) ==
    [tool |-> tool, args |-> args, env |-> env, results |-> results]
NoResult == Result("none", <<>>, Envelope([k |-> "none"], FALSE), <<>>)

\* the host takes the returned envelope of the design-standards tool
deliver ==
    /\ last.tool # "none"
    /\ last' = NoResult
    /\ UNCHANGED <<parseVars, extractVars, eventVars, server, doc, httpVars>>

search_design_standards(query, caseSensitive, maxResults) ==
    /\ server = "design-standards-server"
    /\ last.tool = "none"
    /\ last' = Result("search_design_standards",
                      [query |-> query, caseSensitive |-> caseSensitive,
                       maxResults |-> maxResults],
                      search_design_standards_env(query, caseSensitive, maxResults),
                      searchDesignStandards(query, caseSensitive))
    /\ UNCHANGED <<parseVars, extractVars, eventVars, server, doc, httpVars>>

(***************************************************************************)
(* CSS rendering and the lookup tools. CSS text is a sequence of lines,    *)
(* each a tuple of its kind and the values printed in it.                  *)
(***************************************************************************)

TypeError == <<"TypeError">>

\* declarationLines that stops after the first variable
declarationLines_firstOnly(variables) ==
    [j \in 1..(IF ObjectEntries(variables) = <<>> THEN 0 ELSE 1) |->
        <<"decl", ObjectEntries(variables)[j].k, ObjectEntries(variables)[j].v>>]

\* the inner loop over Object.entries(variables): one declaration per variable
declarationLines(variables) ==
    [j \in 1..Len(ObjectEntries(variables)) |->
        <<"decl", ObjectEntries(variables)[j].k, ObjectEntries(variables)[j].v>>]

RECURSIVE categoryLines(_)
\* the loop over Object.entries(css): fontFiles skipped, every other category
\* printed as a comment, its declarations and an empty line
categoryLines(entries) ==
    IF entries = <<>> THEN <<>>
    ELSE LET category == Head(entries).k
             variables == Head(entries).v
         IN  (IF category = K.fontFiles THEN <<>>
              ELSE << <<"comment", category>> >> \o declarationLines(variables)
                       \o << <<"blank">> >>)
             \o categoryLines(Tail(entries))

\* Object.entries(variables) raises a TypeError inside that loop
categoriesThrow(entries) ==
    \E j \in 1..Len(entries) : entries[j].k # K.fontFiles /\ Throws(entries[j].v)

CssEnvelope(lines) == Envelope([k |-> "css", lines |-> lines], FALSE)

brandDataOf(brand) == Get(Get(designStandards, K.brands), brand)

\* ---- generateComponentCSS ----
RECURSIVE processRules(_)
processRules(entries) ==
    IF entries = <<>> THEN <<>>
    ELSE LET key == Head(entries).k
             value == Head(entries).v
         IN  (IF key = K.css /\ value.t = "str" THEN << <<"css", value>> >>
              ELSE IF key = K.hover /\ value.t \in {"obj", "null"} THEN <<>>
              ELSE IF value.t = "obj" /\ HasKey(value, K.css)
                   THEN << <<"css", Get(value, K.css)>> >>
              ELSE <<>>)
             \o processRules(Tail(entries))

\* generateComponentCSS writing the hover block whether or not rules.hover exists
generateComponentCSS_alwaysHover(component, rules, brandPrefix) ==
    LET hover == Get(rules, K.hover)
    IN  << <<"selector", brandPrefix, component>> >>
            \o processRules(ObjectEntries(rules))
            \o << <<"close">> >>
            \o << <<"blank">>, <<"hover_selector", brandPrefix, component>> >>
            \o (IF Get(hover, K.css).t = "str"
                THEN << <<"css", Get(hover, K.css)>> >> ELSE <<>>)
            \o << <<"close">> >>

generateComponentCSS(component, rules, brandPrefix) ==
    LET hover == Get(rules, K.hover)
    IN  << <<"selector", brandPrefix, component>> >>
            \o processRules(ObjectEntries(rules))
            \o << <<"close">> >>
            \o (IF Truthy(hover)
                THEN << <<"blank">>, <<"hover_selector", brandPrefix, component>> >>
                        \o (IF Get(hover, K.css).t = "str"
                            THEN << <<"css", Get(hover, K.css)>> >> ELSE <<>>)
                        \o << <<"close">> >>
                ELSE <<>>)

\* ---- list_brands ----
list_brands_env ==
    LET entries == ObjectEntries(Get(designStandards, K.brands))
    IN  IF Throws(Get(designStandards, K.brands)) \/ \E j \in 1..Len(entries) : Throws(entries[j].v)
        THEN CaughtEnvelope(TypeError)
        ELSE Envelope([k |-> "brands", count |-> Len(entries),
                       brands |-> [j \in 1..Len(entries) |->
                           [id |-> entries[j].k,
                            name |-> Get(entries[j].v, K.name),
                            shortName |-> Get(entries[j].v, K.shortName),
                            hasCSS |-> Truthy(Get(entries[j].v, K.css)),
                            hasSassVariables |-> Truthy(Get(entries[j].v, K.sassVariables)),
                            hasAssets |-> Truthy(Get(entries[j].v, K.assets))]]],
                      FALSE)

\* ---- get_brand_styles ----
get_brand_styles_env(brand, format) ==
    LET brandData == brandDataOf(brand)
        css == Get(brandData, K.css)
    IN  IF Throws(Get(designStandards, K.brands)) THEN CaughtEnvelope(TypeError)
        ELSE IF ~Truthy(brandData)
        THEN ErrorEnvelope([k |-> "unknown_brand", brand |-> brand, valid |-> VALID_BRANDS])
        ELSE IF format = "css"
        THEN IF Truthy(css) /\ categoriesThrow(ObjectEntries(css))
             THEN CaughtEnvelope(TypeError)
             ELSE CssEnvelope(
                      << <<"header", Get(brandData, K.name), "Design Standards">>, <<"blank">> >>
                      \o (IF Truthy(css)
                          THEN << <<"banner", "CSS Variables">>, <<"root">> >>
                                  \o categoryLines(ObjectEntries(css)) \o << <<"close">> >>
                          ELSE <<>>))
        ELSE JsonEnvelope(brandData)

\* ---- get_css_variables ----
get_css_variables_env(brand, category, format) ==
    LET brandData == brandDataOf(brand)
        css == Get(brandData, K.css)
        cssData == IF category # omitted
                   THEN Obj(<<Entry(category, Get(css, category))>>)
                   ELSE css
    IN  IF Throws(Get(designStandards, K.brands)) THEN CaughtEnvelope(TypeError)
        ELSE IF ~Truthy(brandData) \/ ~Truthy(css)
        THEN ErrorEnvelope([k |-> "no_css_data", brand |-> brand])
        ELSE IF format = "css"
        THEN IF categoriesThrow(ObjectEntries(cssData))
             THEN CaughtEnvelope(TypeError)
             ELSE CssEnvelope(<< <<"root">> >> \o categoryLines(ObjectEntries(cssData))
                                  \o << <<"close">> >>)
        ELSE JsonEnvelope(cssData)

\* ---- get_css_rules ----
RenderedComponents == {K.buttons, K.cards, K.modals}

get_css_rules_env(component, format, brand) ==
    LET componentRules == Get(Get(designStandards, K.cssRules), component)
        prefix == IF brand # omitted THEN brand ELSE K.component
    IN  IF Throws(Get(designStandards, K.cssRules)) THEN CaughtEnvelope(TypeError)
        ELSE IF ~Truthy(componentRules)
        THEN ErrorEnvelope([k |-> "unknown_component", component |-> component])
        ELSE IF format = "css" /\ component \in RenderedComponents
        THEN CssEnvelope(generateComponentCSS(component, componentRules, prefix))
        ELSE JsonEnvelope(componentRules)

\* ---- generate_css ----
DefaultComponents == <<K.buttons, K.cards, K.modals>>

\* component.charAt(0).toUpperCase() + component.slice(1)
capitalise(component) ==
    IF component = <<>> THEN <<>> ELSE <<UpperChar(Head(component))>> \o Tail(component)

RECURSIVE componentSections(_, _)
\* the loop over components (lines 504-514)
componentSections(components, brand) ==
    IF components = <<>> THEN <<>>
    ELSE LET component == Head(components)
             rules == Get(Get(designStandards, K.cssRules), component)
         IN  (IF Truthy(rules)
              THEN << <<"section", capitalise(component)>> >>
                      \o generateComponentCSS(component, rules, brand)
                      \o << <<"blank">> >>
              ELSE <<>>)
             \o componentSections(Tail(components), brand)

\* includeComponents is [given |-> FALSE] when omitted, else [given |-> TRUE, list |-> ...]
generate_css_env(brand, includeComponents) ==
    LET brandData == brandDataOf(brand)
        css == Get(brandData, K.css)
        components == IF includeComponents.given THEN includeComponents.list
                      ELSE DefaultComponents
    IN  IF Throws(Get(designStandards, K.brands)) THEN CaughtEnvelope(TypeError)
        ELSE IF ~Truthy(brandData)
        THEN ErrorEnvelope([k |-> "unknown_brand", brand |-> brand, valid |-> <<>>])
        ELSE IF Truthy(css) /\ categoriesThrow(ObjectEntries(css))
        THEN CaughtEnvelope(TypeError)
        ELSE IF components # <<>> /\ Throws(Get(designStandards, K.cssRules))
        THEN CaughtEnvelope(TypeError)
        ELSE CssEnvelope(
                 << <<"header", Get(brandData, K.name), "Complete Stylesheet">>,
                    <<"generated">>, <<"blank">>,
                    <<"banner", "CSS Variables">>, <<"root">> >>
                 \o (IF Truthy(css) THEN categoryLines(ObjectEntries(css)) ELSE <<>>)
                 \o << <<"close">>, <<"blank">> >>
                 \o componentSections(components, brand))

\* ---- get_usage_guidelines ----
get_usage_guidelines_env(category) ==
    LET usage == Get(designStandards, K.usage)
    IN  IF category = K.all THEN JsonEnvelope(usage)
        ELSE IF Throws(usage) THEN CaughtEnvelope(TypeError)
        ELSE JsonEnvelope(Obj(<<Entry(category, Get(usage, category))>>))

\* ---- the handlers as steps of the server ----
list_brands ==
    /\ server = "design-standards-server"
    /\ last.tool = "none"
    /\ last' = Result("list_brands", [none |-> TRUE], list_brands_env, <<>>)
    /\ UNCHANGED <<parseVars, extractVars, eventVars, server, doc, httpVars>>

get_brand_styles(brand, format) ==
    /\ server = "design-standards-server"
    /\ last.tool = "none"
    /\ last' = Result("get_brand_styles", [brand |-> brand, format |-> format],
                      get_brand_styles_env(brand, format), <<>>)
    /\ UNCHANGED <<parseVars, extractVars, eventVars, server, doc, httpVars>>

get_css_variables(brand, category, format) ==
    /\ server = "design-standards-server"
    /\ last.tool = "none"
    /\ last' = Result("get_css_variables",
                      [brand |-> brand, category |-> category, format |-> format],
                      get_css_variables_env(brand, category, format), <<>>)
    /\ UNCHANGED <<parseVars, extractVars, eventVars, server, doc, httpVars>>

get_css_rules(component, format, brand) ==
    /\ server = "design-standards-server"
    /\ last.tool = "none"
    /\ last' = Result("get_css_rules",
                      [component |-> component, format |-> format, brand |-> brand],
                      get_css_rules_env(component, format, brand), <<>>)
    /\ UNCHANGED <<parseVars, extractVars, eventVars, server, doc, httpVars>>

generate_css(brand, includeComponents) ==
    /\ server = "design-standards-server"
    /\ last.tool = "none"
    /\ last' = Result("generate_css",
                      [brand |-> brand, includeComponents |-> includeComponents],
                      generate_css_env(brand, includeComponents), <<>>)
    /\ UNCHANGED <<parseVars, extractVars, eventVars, server, doc, httpVars>>

\* get_usage_guidelines storing the projection it returns in designStandards
get_usage_guidelines_writesBack(category) ==
    /\ server = "design-standards-server"
    /\ last.tool = "none"
    /\ last' = Result("get_usage_guidelines", [category |-> category],
                      get_usage_guidelines_env(category), <<>>)
    /\ doc' = Get(designStandards, K.usage)
    /\ UNCHANGED <<parseVars, extractVars, eventVars, server, httpVars>>

get_usage_guidelines(category) ==
    /\ server = "design-standards-server"
    /\ last.tool = "none"
    /\ last' = Result("get_usage_guidelines", [category |-> category],
                      get_usage_guidelines_env(category), <<>>)
    /\ UNCHANGED <<parseVars, extractVars, eventVars, server, doc, httpVars>>

(***************************************************************************)
(* Spec: one process, running either server, under bounded arguments,      *)
(* fetch outcomes and documents                                            *)
(***************************************************************************)
UrlEvent == <<"/", "e", "v", "e", "n", "t">>
UrlEventCap == <<"/", "E", "v", "e", "n", "t">>
UrlRide == <<"/", "r", "i", "d", "e">>
Loc(u) == LocOpen \o u \o LocClose

\* bodies the network may return: sitemaps of 0..3 entries, a sitemap whose
\* entries are on separate lines, and an HTML page
Bodies ==
    { <<>>,
      Loc(UrlRide),
      Loc(UrlEvent) \o Loc(UrlRide) \o Loc(UrlEventCap),
      Loc(UrlEventCap) \o <<"\n">> \o Loc(UrlEvent),
      <<"<", "p", ">", "a", " ", " ", "&", "a", "m", "p", ";", " ", "b", "<", "/", "p", ">">> }

Responses ==
    {Response("ok", 200, b) : b \in Bodies}
        \cup {Response("status", 404, <<>>), Response("fault", 0, <<>>)}

SiteArgs == {"pmc", "wintercycle", "bogus"}
PatternArgs == { <<"e", "v", "e", "n", "t">>, <<"E", "V", "E", "N", "T">>,
                 <<"E", "v", "e", "n", "t">>, <<"z", "z">> }
LimitArgs == (-1)..MaxLimit
UrlArgs == { <<"h", "t", "t", "p", "s", ":", "/", "/", "e", ".", "o", "r", "g", "/", "a">>,
             <<"h", "t", "t", "p", ":", "/", "/", "e", ".", "o", "r", "g">>,
             UrlRide, <<"r", "i", "d", "e">> }

QueryArgs == { <<"A", "B", "2", "9", "2", "C">>, <<"a", "b", "2", "9", "2", "c">>,
               K.primary, <<"P", "R", "I", "M", "A", "R", "Y">>, K.css,
               <<"n", "o", "n", "e", "x", "i", "s", "t", "e", "n", "t", "-", "x", "y", "z">> }
DefaultMaxResults == 20
MaxResultsArgs == (0..MaxResultsArg) \cup {DefaultMaxResults}

BrandArgs == {K.pmc, K.unpaved, K.wintercycle, K.admin, K.unknown}
FormatArgs == {"json", "css"}
CategoryArgs == {omitted, K.colors, K.borderRadius, K.boxShadow, K.fontFamily, K.fontFiles}
ComponentArgs == {K.buttons, K.cards, K.modals, K.spacing, K.typography,
                  K.mediaQueries, K.contrast, K.accessibility}
IncludableComponents == {K.buttons, K.cards, K.modals, K.typography}
IncludeArgs ==
    {[given |-> FALSE, list |-> <<>>]}
        \cup {[given |-> TRUE, list |-> l] : l \in SeqsUpTo(IncludableComponents, MaxInclude)}
UsageArgs == {K.colors, K.typography, K.spacing, K.accessibility, K.all}

\* the event-information server holds no document; the design-standards
\* server has loaded one and has no invocation table
Init ==
    /\ \/ /\ server = "event-info-server"
          /\ doc = Null
       \/ /\ server = "design-standards-server"
          /\ doc \in Docs
    /\ calls = [i \in 1..MaxInFlight |-> Idle]
    /\ last = NoResult
    /\ ParseIdle
    /\ ExtractIdle
    /\ HttpIdle

NextEvents ==
    \E i \in 1..MaxInFlight :
        \/ \E site \in SiteArgs : fetch_sitemap_call(i, site)
        \/ \E resp \in Responses : fetch_sitemap_resume(i, resp)
        \/ \E url \in UrlArgs, site \in SiteArgs \cup {undefined}, extractText \in BOOLEAN :
               get_event_page_call(i, url, site, extractText)
        \/ \E resp \in Responses : get_event_page_resume(i, resp)
        \/ \E site \in SiteArgs, pattern \in PatternArgs, caseInsensitive \in BOOLEAN :
               search_events_call(i, site, pattern, caseInsensitive)
        \/ \E resp \in Responses : search_events_resume(i, resp)
        \/ \E site \in SiteArgs, limit \in LimitArgs : list_all_events_call(i, site, limit)
        \/ \E resp \in Responses : list_all_events_resume(i, resp)
        \/ release(i)

NextDesign ==
    \/ deliver
    \/ list_brands
    \/ \E brand \in BrandArgs, format \in FormatArgs : get_brand_styles(brand, format)
    \/ \E brand \in BrandArgs, category \in CategoryArgs, format \in FormatArgs :
           get_css_variables(brand, category, format)
    \/ \E component \in ComponentArgs, format \in FormatArgs, brand \in {omitted, K.pmc} :
           get_css_rules(component, format, brand)
    \/ \E brand \in BrandArgs, includeComponents \in IncludeArgs :
           generate_css(brand, includeComponents)
    \/ \E category \in UsageArgs : get_usage_guidelines(category)
    \/ \E query \in QueryArgs, caseSensitive \in BOOLEAN, maxResults \in MaxResultsArgs :
           search_design_standards(query, caseSensitive, maxResults)

Next == NextEvents \/ NextDesign

Spec == Init /\ [][Next]_vars

(***************************************************************************)
(* Design-standards server: the HTTP endpoint /mcp                         *)
(* A session id is the number of the transport that generated it           *)
(* (randomUUID never repeats); 0 is an id this process never issued.       *)
(***************************************************************************)
\* new StreamableHTTPServerTransport(...) together with the McpServer made for it
NewTransport == [sessionId |-> <<>>, initialized |-> FALSE, closed |-> FALSE,
                 mcp |-> "created"]

\* onsessioninitialized that replaces the map's content by the new entry
onsessioninitialized_replacesAll(map, id, t) == {[id |-> id, transport |-> t]}

\* the onsessioninitialized callback (lines 686-689): transports.set(id, transport)
onsessioninitialized(map, id, t) ==
    {en \in map : en.id # id} \cup {[id |-> id, transport |-> t]}

\* onclose that leaves the map as it is
onclose_keepsEntry(map, sessionId) == map

\* the onclose callback (lines 695-701): transports.delete(sid) if the
\* transport has a session id and the map has it
onclose(map, sessionId) ==
    IF sessionId # <<>> /\ \E en \in map : en.id = sessionId[1]
    THEN {en \in map : en.id # sessionId[1]} ELSE map

\* handleRequest that takes the session id from the request's header when the
\* request has one
handleRequest_adoptsHeader(inst, map, t, header, kind) ==
    LET tr == inst[t]
        id == IF header # <<>> THEN header[1] ELSE t
    IN  IF kind = "initialize"
        THEN IF tr.initialized
             THEN [status |-> 400, inst |-> inst, map |-> map]
             ELSE [status |-> 200,
                   inst |-> [inst EXCEPT ![t].sessionId = <<id>>, ![t].initialized = TRUE],
                   map |-> onsessioninitialized(map, id, t)]
        ELSE IF ~tr.initialized \/ header = <<>>
        THEN [status |-> 400, inst |-> inst, map |-> map]
        ELSE IF header # tr.sessionId
        THEN [status |-> 404, inst |-> inst, map |-> map]
        ELSE IF kind = "delete"
        THEN [status |-> 200, inst |-> [inst EXCEPT ![t].closed = TRUE],
              map |-> onclose(map, tr.sessionId)]
        ELSE [status |-> 200, inst |-> inst, map |-> map]

\* transport.handleRequest: an initialize request gives a fresh transport its
\* session id and calls onsessioninitialized; any other request is refused by
\* a transport without a session, or whose session id is not the header's;
\* a DELETE closes the transport, which calls onclose
handleRequest(inst, map, t, header, kind) ==
    LET tr == inst[t]
    IN  IF kind = "initialize"
        THEN IF tr.initialized
             THEN [status |-> 400, inst |-> inst, map |-> map]
             ELSE [status |-> 200,
                   inst |-> [inst EXCEPT ![t].sessionId = <<t>>, ![t].initialized = TRUE],
                   map |-> onsessioninitialized(map, t, t)]
        ELSE IF ~tr.initialized \/ header = <<>>
        THEN [status |-> 400, inst |-> inst, map |-> map]
        ELSE IF header # tr.sessionId
        THEN [status |-> 404, inst |-> inst, map |-> map]
        ELSE IF kind = "delete"
        THEN [status |-> 200, inst |-> [inst EXCEPT ![t].closed = TRUE],
              map |-> onclose(map, tr.sessionId)]
        ELSE [status |-> 200, inst |-> inst, map |-> map]

\* the mcp-session-id a request can carry: none, an id this process never
\* issued (0), or an id some transport of this process has generated (a client
\* cannot name an id that randomUUID has yet to produce)
CanCarry(header) ==
    header \in {<<>>, <<0>>} \cup {instances[t].sessionId : t \in DOMAIN instances}

IdleRequest == [pc |-> "idle", header |-> <<>>, kind |-> "none", transport |-> 0,
                created |-> FALSE, status |-> 0]

\* const sessionId = req.headers["mcp-session-id"];
\* let transport = sessionId ? transports.get(sessionId) : undefined;
lookup(header) ==
    IF header # <<>> /\ \E en \in transports : en.id = header[1]
    THEN (CHOOSE en \in transports : en.id = header[1]).transport ELSE 0

\* app.all("/mcp") for a request whose session is in the map: the stored
\* transport handles it
mcp_known(i, header, kind) ==
    /\ requests[i].pc = "idle"
    /\ CanCarry(header)
    /\ lookup(header) # 0
    /\ LET t == lookup(header)
           h == handleRequest(instances, transports, t, header, kind)
       IN  /\ instances' = h.inst
           /\ transports' = h.map
           /\ requests' = [requests EXCEPT ![i] =
                  [pc |-> "done", header |-> header, kind |-> kind, transport |-> t,
                   created |-> FALSE, status |-> h.status]]
    /\ UNCHANGED <<parseVars, extractVars, eventVars, server, designVars>>

\* app.all("/mcp") up to await mcp.connect(transport): no transport found, so a
\* transport and a server instance are made
mcp_first(i, header, kind) ==
    /\ requests[i].pc = "idle"
    /\ CanCarry(header)
    /\ lookup(header) = 0
    /\ Len(instances) < MaxTransports
    /\ instances' = Append(instances, NewTransport)
    /\ requests' = [requests EXCEPT ![i] =
           [pc |-> "connecting", header |-> header, kind |-> kind,
            transport |-> Len(instances) + 1, created |-> TRUE, status |-> 0]]
    /\ UNCHANGED <<parseVars, extractVars, eventVars, server, designVars, transports>>

\* app.all("/mcp") from the return of mcp.connect: the new transport handles
\* the request
mcp_connected(i) ==
    /\ requests[i].pc = "connecting"
    /\ LET r == requests[i]
           connected == [instances EXCEPT ![r.transport].mcp = "connected"]
           h == handleRequest(connected, transports, r.transport, r.header, r.kind)
       IN  /\ instances' = h.inst
           /\ transports' = h.map
           /\ requests' = [requests EXCEPT ![i].pc = "done", ![i].status = h.status]
    /\ UNCHANGED <<parseVars, extractVars, eventVars, server, designVars>>

\* app.get("/healthz"): answers "ok"
get_healthz(i) ==
    /\ requests[i].pc = "idle"
    /\ requests' = [requests EXCEPT ![i] =
           [IdleRequest EXCEPT !.pc = "done", !.kind = "healthz", !.status = 200]]
    /\ UNCHANGED <<parseVars, extractVars, eventVars, server, designVars,
                   transports, instances>>

\* app.get("/"): answers the server description
get_root(i) ==
    /\ requests[i].pc = "idle"
    /\ requests' = [requests EXCEPT ![i] =
           [IdleRequest EXCEPT !.pc = "done", !.kind = "root", !.status = 200]]
    /\ UNCHANGED <<parseVars, extractVars, eventVars, server, designVars,
                   transports, instances>>

\* mcp_responded that also forgets the session the request named
mcp_responded_forgets(i) ==
    /\ requests[i].pc = "done"
    /\ requests' = [requests EXCEPT ![i] = IdleRequest]
    /\ transports' = {en \in transports : en.transport # requests[i].transport}
    /\ UNCHANGED <<parseVars, extractVars, eventVars, server, designVars, instances>>

\* the response has been sent
mcp_responded(i) ==
    /\ requests[i].pc = "done"
    /\ requests' = [requests EXCEPT ![i] = IdleRequest]
    /\ UNCHANGED <<parseVars, extractVars, eventVars, server, designVars,
                   transports, instances>>

HeaderArgs == {<<>>} \cup {<<n>> : n \in 0..MaxTransports}
KindArgs == {"initialize", "call", "delete"}

InitHttp ==
    /\ transports = {}
    /\ instances = <<>>
    /\ requests = [i \in 1..MaxRequests |-> IdleRequest]
    /\ server = "design-standards-server"
    /\ doc = DocA
    /\ last = NoResult
    /\ calls = <<>>
    /\ ParseIdle
    /\ ExtractIdle

NextHttp ==
    \E i \in 1..MaxRequests :
        \/ \E header \in HeaderArgs, kind \in KindArgs : mcp_known(i, header, kind)
        \/ \E header \in HeaderArgs, kind \in KindArgs : mcp_first(i, header, kind)
        \/ mcp_connected(i)
        \/ get_healthz(i)
        \/ get_root(i)
        \/ mcp_responded(i)

SpecHttp == InitHttp /\ [][NextHttp]_vars

(***************************************************************************)
(* SpecConcurrent: the event-information server with several invocations   *)
(* in flight, their fetches completing in any order, under a small set of  *)
(* arguments and responses.                                                *)
(***************************************************************************)
InitConcurrent ==
    /\ server = "event-info-server"
    /\ doc = Null
    /\ calls = [i \in 1..MaxConcurrent |-> Idle]
    /\ last = NoResult
    /\ ParseIdle
    /\ ExtractIdle
    /\ HttpIdle

NextConcurrent ==
    \E i \in 1..MaxConcurrent :
        \/ \E site \in {"pmc", "bogus"} : fetch_sitemap_call(i, site)
        \/ \E site \in {"pmc", "bogus"}, pattern \in {UrlEvent, <<"z", "z">>} :
               search_events_call(i, site, pattern, TRUE)
        \/ \E site \in {"pmc", "bogus"}, limit \in {0, 1} : list_all_events_call(i, site, limit)
        \/ get_event_page_call(i, UrlRide, "unpaved", FALSE)
        \/ \E resp \in {Response("ok", 200, Loc(UrlRide)),
                        Response("ok", 200, Loc(UrlEvent) \o Loc(UrlRide) \o Loc(UrlEventCap)),
                        Response("status", 404, <<>>)} :
               \/ fetch_sitemap_resume(i, resp)
               \/ get_event_page_resume(i, resp)
               \/ search_events_resume(i, resp)
               \/ list_all_events_resume(i, resp)
        \/ release(i)

SpecConcurrent == InitConcurrent /\ [][NextConcurrent]_vars

(***************************************************************************)
(* What a reader of the XML calls the <loc> pairs of a text                *)
(***************************************************************************)
IsContentAtom(a) == a # LocOpen /\ a # LocClose /\ a # <<"<">>

RECURSIVE LocWellFormedFrom(_, _)
\* every <loc> is closed by a </loc> before the next <loc>, every </loc>
\* closes a <loc>, and no raw "<" occurs in character data
LocWellFormedFrom(atoms, open) ==
    IF atoms = <<>> THEN ~open
    ELSE LET a == Head(atoms)
         IN  CASE a = LocOpen  -> ~open /\ LocWellFormedFrom(Tail(atoms), TRUE)
               [] a = LocClose -> open /\ LocWellFormedFrom(Tail(atoms), FALSE)
               [] OTHER        -> IsContentAtom(a) /\ LocWellFormedFrom(Tail(atoms), open)

LocWellFormed(atoms) == LocWellFormedFrom(atoms, FALSE)

RECURSIVE LocContentsFrom(_, _, _)
\* the texts between each <loc> and its </loc>, in document order
LocContentsFrom(atoms, open, acc) ==
    IF atoms = <<>> THEN <<>>
    ELSE LET a == Head(atoms)
         IN  CASE a = LocOpen  -> LocContentsFrom(Tail(atoms), TRUE, <<>>)
               [] a = LocClose -> <<acc>> \o LocContentsFrom(Tail(atoms), FALSE, <<>>)
               [] OTHER        -> LocContentsFrom(Tail(atoms), open, IF open THEN acc \o a ELSE acc)

LocContents(atoms) == LocContentsFrom(atoms, FALSE, <<>>)

\* C1: for every well-formed XML text with N <loc>...</loc> pairs, including
\* pairs whose content spans a line break, parseSitemap returns exactly the N
\* texts between the markers, in document order.
C1_ParseReturnsEveryLoc ==
    (pcParse = "done" /\ LocWellFormed(xmlAtoms)) => urls = LocContents(xmlAtoms)

(***************************************************************************)
(* What a reader of the HTML calls script and style content                *)
(***************************************************************************)
\* "script" / "style" when the atom opens such an element, "none" otherwise
OpenerKind(a) ==
    CASE a \in {ScriptOpenAtom, ScriptAttrAtom} -> "script"
      [] a = StyleOpenAtom -> "style"
      [] OTHER -> "none"

CloserAtomOf(kind) == IF kind = "script" THEN ScriptCloseAtom ELSE StyleCloseAtom

\* index of the first closing tag of the kind after index i, 0 if none
MatchingCloser(atoms, i, kind) ==
    LET J == {j \in (i + 1)..Len(atoms) : atoms[j] = CloserAtomOf(kind)}
    IN  IF J = {} THEN 0 ELSE Min(J)

\* every opener atom of the text is followed by a closing tag of its kind
EveryOpenerClosed(atoms) ==
    \A i \in 1..Len(atoms) :
        OpenerKind(atoms[i]) # "none" => MatchingCloser(atoms, i, OpenerKind(atoms[i])) # 0

RECURSIVE BlockContentFrom(_, _)
\* reading left to right from index i: the indices lying strictly between an
\* opener and its closing tag (an opener inside such content opens nothing)
BlockContentFrom(atoms, i) ==
    IF i > Len(atoms) THEN {}
    ELSE IF OpenerKind(atoms[i]) = "none" THEN BlockContentFrom(atoms, i + 1)
    ELSE LET c == MatchingCloser(atoms, i, OpenerKind(atoms[i]))
         IN  IF c = 0 THEN BlockContentFrom(atoms, i + 1)
             ELSE ((i + 1)..(c - 1)) \cup BlockContentFrom(atoms, c + 1)

MarkerAt(atoms) == {i \in 1..Len(atoms) : atoms[i] = <<"x">>}

\* C2: extractTextFromHtml is idempotent: extracting already-extracted text
\* returns it unchanged, also for inputs holding encoded entities.
C2_ExtractIdempotent ==
    pcExtract = "done" => extractTextFromHtml(text) = text

\* C3: when every <script ...> / <style ...> opener has a matching closing
\* tag, no character lying between an opener and its closer is in the output
\* (checked on the marker character x, placed only inside such content).
C3_ScriptStyleContentRemoved ==
    (/\ pcExtract = "done"
     /\ EveryOpenerClosed(htmlAtoms)
     /\ MarkerAt(htmlAtoms) # {}
     /\ MarkerAt(htmlAtoms) \subseteq BlockContentFrom(htmlAtoms, 1))
        => ~Includes(text, <<"x">>)

(***************************************************************************)
(* Claims about the event-information server's tools                       *)
(***************************************************************************)
\* p occurs in u as a contiguous substring
HasSubstring(u, p) ==
    \E a \in 0..(Len(u) - Len(p)) : \A k \in 1..Len(p) : u[a + k] = p[k]

\* t is s restricted to the indices in idx, order kept
IsRestriction(t, s, idx) ==
    /\ Len(t) = Cardinality(idx)
    /\ \A j \in idx : t[Cardinality({h \in idx : h <= j})] = s[j]

\* the invocations of a tool that returned after a successful fetch
ReturnedOk(tool) ==
    {i \in DOMAIN calls :
        calls[i].pc = "done" /\ calls[i].tool = tool /\ calls[i].resp.kind = "ok"}

TextOf(i) == calls[i].env.content[1].text

\* C4: search_events returns exactly the URLs of the parsed sitemap that
\* contain the pattern as a plain substring (both lower-cased when
\* caseInsensitive, exact case otherwise), in sitemap order, and the count it
\* reports is the number of URLs it returns.
C4_SearchEventsSubstring ==
    \A i \in ReturnedOk("search_events") :
        LET a == calls[i].args
            found == parseSitemap(calls[i].resp.body)
            idx == {j \in 1..Len(found) :
                       IF a.caseInsensitive
                       THEN HasSubstring(toLowerCase(found[j]), toLowerCase(a.pattern))
                       ELSE HasSubstring(found[j], a.pattern)}
        IN  IF idx = {}
            THEN TextOf(i).k = "no_urls"
            ELSE /\ TextOf(i).k = "found"
                 /\ IsRestriction(TextOf(i).urls, found, idx)
                 /\ TextOf(i).count = Len(TextOf(i).urls)

\* a case-insensitive search for "EVENT" returned a URL containing "event"
C4_Witness ==
    \E i \in ReturnedOk("search_events") :
        /\ calls[i].args.caseInsensitive
        /\ calls[i].args.pattern = <<"E", "V", "E", "N", "T">>
        /\ TextOf(i).k = "found"
        /\ \E j \in 1..Len(TextOf(i).urls) : TextOf(i).urls[j] = UrlEvent

\* C5: list_all_events reports the full length of the parsed sitemap as the
\* total; limit = 0 returns every URL with nothing omitted; 0 < limit < total
\* returns exactly the first limit URLs and reports total - limit omitted;
\* limit >= total returns every URL with no omission notice.
C5_ListAllEventsLimit ==
    \A i \in ReturnedOk("list_all_events") :
        LET limit == calls[i].args.limit
            found == parseSitemap(calls[i].resp.body)
            total == Len(found)
            t == TextOf(i)
        IN  /\ t.total = total
            /\ (limit = 0 \/ limit >= total) =>
                   t.urls = found /\ t.andMore = <<>> /\ t.showingFirst = <<>>
            /\ (0 < limit /\ limit < total) =>
                   /\ Len(t.urls) = limit
                   /\ \A j \in 1..limit : t.urls[j] = found[j]
                   /\ t.andMore = <<total - limit>>

\* a list was cut to its first k URLs, 0 < k < total
C5_Witness ==
    \E i \in ReturnedOk("list_all_events") :
        /\ 0 < calls[i].args.limit
        /\ calls[i].args.limit < TextOf(i).total
        /\ TextOf(i).andMore # <<>>

(***************************************************************************)
(* Claims about the design-standards server's tools                        *)
(***************************************************************************)
RECURSIVE NodesUnder(_, _)
\* every node below a value, with the keys leading to it from the root
NodesUnder(node, path) ==
    IF node.t # "obj" THEN {}
    ELSE UNION { {[path |-> Append(path, node.e[j].k), key |-> node.e[j].k,
                   value |-> node.e[j].v]}
                     \cup NodesUnder(node.e[j].v, Append(path, node.e[j].k))
                 : j \in 1..Len(node.e) }

LastText == last.env.content[1].text

\* C6: for every node of the document whose value is a string containing the
\* query (letter case ignored unless caseSensitive), searchDesignStandards
\* returns a record with that node's dotted path and key and with the node's
\* string unchanged as its value.
C6_SearchValueMatch ==
    last.tool = "search_design_standards" =>
        \A n \in NodesUnder(doc, <<>>) :
            (/\ n.value.t = "str"
             /\ IF last.args.caseSensitive
                THEN HasSubstring(n.value.s, last.args.query)
                ELSE HasSubstring(toLowerCase(n.value.s), toLowerCase(last.args.query)))
            => \E j \in 1..Len(last.results) :
                   /\ last.results[j].path = join(n.path, <<".">>)
                   /\ last.results[j].key = n.key
                   /\ last.results[j].value = n.value

\* key "primary" = "#AB292C", queried with "ab292c", was returned in its own case
C6_Witness ==
    /\ last.tool = "search_design_standards"
    /\ last.args.query = <<"a", "b", "2", "9", "2", "c">>
    /\ ~last.args.caseSensitive
    /\ \E j \in 1..Len(last.results) :
           /\ last.results[j].key = K.primary
           /\ last.results[j].value = Str(<<"#", "A", "B", "2", "9", "2", "C">>)

\* the lines of a kind in a CSS text, as indices
LinesOfKind(lines, kind) == {j \in 1..Len(lines) : lines[j][1] = kind}

\* the requested components that exist in cssRules, in the caller's order
RequestedPresent(includeComponents) ==
    LET requested == IF includeComponents.given THEN includeComponents.list
                     ELSE <<K.buttons, K.cards, K.modals>>
        Present(c) == HasKey(Get(doc, K.cssRules), c)
    IN  SelectSeq(requested, Present)

\* the component's rule tree holds a hover rule
DefinesHover(c) == Get(Get(Get(doc, K.cssRules), c), K.hover).t = "obj"

BrandTools == {"get_brand_styles", "get_css_variables", "generate_css"}

InvalidEventInput(c) ==
    \/ c.tool \in {"fetch_sitemap", "search_events", "list_all_events"}
           /\ c.args.site \notin DOMAIN EVENT_SITES
    \/ c.tool = "get_event_page" /\ ~isAbsoluteUrl(c.args.url)
           /\ c.args.site \notin DOMAIN EVENT_SITES

InvalidDesignInput ==
    \/ last.tool \in BrandTools /\ ~HasKey(Get(doc, K.brands), last.args.brand)
    \/ last.tool = "get_css_variables" /\ last.args.category # omitted
           /\ ~HasKey(Get(Get(Get(doc, K.brands), last.args.brand), K.css), last.args.category)
    \/ last.tool = "get_css_rules" /\ ~HasKey(Get(doc, K.cssRules), last.args.component)
    \/ last.tool = "get_usage_guidelines" /\ last.args.category # K.all
           /\ ~HasKey(Get(doc, K.usage), last.args.category)

OneTextItem(env) == Len(env.content) = 1 /\ env.content[1].type = "text"

\* C9: every invocation of any of the eleven tools returns an envelope whose
\* content is exactly one text item; invalid input, a failed fetch (status or
\* network fault) and a caught exception all give isError = true.
C9_ToolBoundary ==
    /\ \A i \in DOMAIN calls : calls[i].pc = "done" =>
           /\ OneTextItem(calls[i].env)
           /\ (InvalidEventInput(calls[i]) \/ calls[i].resp.kind \in {"status", "fault"})
                  => calls[i].env.isError
    /\ last.tool # "none" =>
           /\ OneTextItem(last.env)
           /\ (InvalidDesignInput \/ LastText.k = "error") => last.env.isError

\* C10: a search_events whose sitemap holds no matching URL, and a
\* search_design_standards that found no node, return an envelope without
\* isError whose text says nothing was found; every error envelope has isError.
C10_ZeroResultsNotErrors ==
    /\ \A i \in ReturnedOk("search_events") :
           (\A j \in 1..Len(parseSitemap(calls[i].resp.body)) :
                ~HasSubstring(
                    IF calls[i].args.caseInsensitive
                    THEN toLowerCase(parseSitemap(calls[i].resp.body)[j])
                    ELSE parseSitemap(calls[i].resp.body)[j],
                    IF calls[i].args.caseInsensitive
                    THEN toLowerCase(calls[i].args.pattern)
                    ELSE calls[i].args.pattern))
           => ~calls[i].env.isError /\ TextOf(i).k = "no_urls"
    /\ (last.tool = "search_design_standards" /\ last.results = <<>>)
           => ~last.env.isError /\ LastText.k = "no_results"
    /\ \A i \in DOMAIN calls :
           (calls[i].pc = "done" /\ TextOf(i).k \in {"error", "unknown_site", "need_url_or_site"})
               => calls[i].env.isError
    /\ (last.tool = "search_design_standards" /\ LastText.k = "error") => last.env.isError

\* a sitemap with URLs was searched and none matched
C10_Witness ==
    \E i \in ReturnedOk("search_events") :
        /\ parseSitemap(calls[i].resp.body) # <<>>
        /\ TextOf(i).k = "no_urls"
        /\ ~calls[i].env.isError

EventTools == {"fetch_sitemap", "get_event_page", "search_events", "list_all_events"}

\* C11: an invocation of any of the four event tools whose site is not a key
\* of the site registry has returned an isError envelope whose text lists the
\* valid site identifiers, and has started no fetch (whatever its url is).
C11_UnknownSiteNoFetch ==
    \A i \in DOMAIN calls :
        (/\ calls[i].tool \in EventTools
         /\ calls[i].args.site # undefined
         /\ calls[i].args.site \notin DOMAIN EVENT_SITES)
        => /\ calls[i].pc = "done"
           /\ calls[i].fetched = <<>>
           /\ calls[i].env.isError
           /\ TextOf(i).k = "unknown_site"
           /\ TextOf(i).valid = VALID_SITES

DocumentTools == {"get_brand_styles", "get_css_variables", "get_css_rules",
                  "get_usage_guidelines"}

\* C12: get_brand_styles, get_css_variables, get_css_rules and
\* get_usage_guidelines return an isError envelope whenever the requested
\* brand, component or category is not a key of the loaded document, in
\* either format.
C12_AbsentKeyIsError ==
    (last.tool \in DocumentTools /\ InvalidDesignInput) => last.env.isError

RECURSIVE PreorderPaths(_, _)
\* the dotted paths of the nodes below the entries given, each node before its
\* descendants and before its later siblings
PreorderPaths(entries, path) ==
    IF entries = <<>> THEN <<>>
    ELSE LET here == Append(path, Head(entries).k)
         IN  <<join(here, <<".">>)>>
                 \o (IF Head(entries).v.t = "obj"
                     THEN PreorderPaths(Head(entries).v.e, here) ELSE <<>>)
                 \o PreorderPaths(Tail(entries), path)

\* the position of a dotted path in the depth-first, declaration-order walk
RankOf(pathString) ==
    LET walk == PreorderPaths(ObjectEntries(doc), <<>>)
    IN  CHOOSE j \in 1..Len(walk) : walk[j] = pathString

\* C13: when search_design_standards has T > 0 matches, the records shown are
\* the first min(T, maxResults) of them, the matches being in depth-first,
\* declaration order; the count reported is T; the "showing first" notice (with
\* maxResults in it) appears iff T > maxResults.
C13_SearchTruncation ==
    (last.tool = "search_design_standards" /\ last.results # <<>>) =>
        LET R == last.results
            T == Len(R)
            maxResults == last.args.maxResults
            n == IF T < maxResults THEN T ELSE maxResults
            t == LastText
        IN  /\ t.k = "results"
            /\ t.count = T
            /\ Len(t.shown) = n
            /\ \A j \in 1..n : /\ t.shown[j].path = R[j].path
                               /\ t.shown[j].value = R[j].value
            /\ \A a, b \in 1..T : a < b => RankOf(R[a].path) <= RankOf(R[b].path)
            /\ (t.showingFirst # <<>>) <=> (T > maxResults)
            /\ t.showingFirst # <<>> => t.showingFirst = <<maxResults>>

\* more matches than maxResults > 0: the shown list was cut
C13_Witness ==
    /\ last.tool = "search_design_standards"
    /\ last.args.maxResults > 0
    /\ Len(last.results) > last.args.maxResults
    /\ Len(LastText.shown) = last.args.maxResults
    /\ LastText.showingFirst # <<>>
    /\ \E a, b \in 1..Len(last.results) : RankOf(last.results[a].path) < RankOf(last.results[b].path)

\* C14: with caseSensitive = true every record returned by
\* searchDesignStandards belongs to a node whose key, dotted path or string
\* value contains the query in exactly the query's letter case.
C14_CaseSensitiveSearch ==
    (last.tool = "search_design_standards" /\ last.args.caseSensitive) =>
        \A j \in 1..Len(last.results) :
            LET r == last.results[j]
            IN  \/ HasSubstring(r.key, last.args.query)
                \/ HasSubstring(r.path, last.args.query)
                \/ r.value.t = "str" /\ HasSubstring(r.value.s, last.args.query)

StartsWith(str, prefix) ==
    Len(prefix) <= Len(str) /\ SubSeq(str, 1, Len(prefix)) = prefix

\* the URL get_event_page is to fetch: an absolute url as it is, a relative one
\* after the site's baseUrl and exactly one "/"
TargetOf(url, site) ==
    IF StartsWith(url, <<"h", "t", "t", "p", ":", "/", "/">>)
           \/ StartsWith(url, <<"h", "t", "t", "p", "s", ":", "/", "/">>)
    THEN url
    ELSE EVENT_SITES[site].baseUrl \o <<"/">>
             \o (IF StartsWith(url, <<"/">>) THEN Tail(url) ELSE url)

\* C15: get_event_page fetches an absolute url unchanged and a relative url
\* joined to the valid site's baseUrl with exactly one "/"; a relative url
\* without a site returns an isError envelope and fetches nothing; the text
\* returned is the extractor's output when extractText is true and the body
\* unchanged when it is false.
C15_EventPageResolution ==
    \A i \in DOMAIN calls :
        calls[i].tool = "get_event_page" =>
            LET a == calls[i].args
                absolute == TargetOf(a.url, "pmc") = a.url
            IN  /\ (absolute \/ a.site \in DOMAIN EVENT_SITES) =>
                      /\ calls[i].pc = "fetching" =>
                             calls[i].fetchUrl = TargetOf(a.url, a.site)
                      /\ calls[i].pc = "done" =>
                             calls[i].fetched = <<TargetOf(a.url, a.site)>>
                      /\ (calls[i].pc = "done" /\ calls[i].resp.kind = "ok") =>
                             /\ TextOf(i).k = "content"
                             /\ TextOf(i).url = TargetOf(a.url, a.site)
                             /\ TextOf(i).body = IF a.extractText
                                                 THEN extractTextFromHtml(calls[i].resp.body)
                                                 ELSE calls[i].resp.body
                /\ (~absolute /\ a.site = undefined) =>
                      /\ calls[i].pc = "done"
                      /\ calls[i].fetched = <<>>
                      /\ calls[i].env.isError

\* a relative url with a leading slash was joined to the site's baseUrl, the
\* page was fetched and its text extracted
C15_Witness ==
    \E i \in ReturnedOk("get_event_page") :
        /\ calls[i].args.url = <<"/", "r", "i", "d", "e">>
        /\ calls[i].args.site = "pmc"
        /\ calls[i].args.extractText
        /\ calls[i].fetched = <<EVENT_SITES["pmc"].baseUrl \o <<"/", "r", "i", "d", "e">> >>
        /\ TextOf(i).body # calls[i].resp.body

\* C16: for every component present in cssRules, get_css_rules returns the
\* component's rule tree as JSON for format = json and, for format = css, CSS
\* whose class selector is .{brand}-{component}, or .component-{component}
\* when no brand is given, whichever of the eight component ids it is.
C16_CssRulesFormat ==
    (/\ last.tool = "get_css_rules"
     /\ Get(Get(doc, K.cssRules), last.args.component).t = "obj") =>
        LET a == last.args
            rules == Get(Get(doc, K.cssRules), a.component)
        IN  /\ a.format = "json" =>
                   LastText.k = "json" /\ LastText.value = rules
            /\ a.format = "css" =>
                   /\ LastText.k = "css"
                   /\ LastText.lines[1] =
                          <<"selector",
                            IF a.brand = <<>> THEN <<"c", "o", "m", "p", "o", "n", "e", "n", "t">>
                            ELSE a.brand,
                            a.component>>

\* C17: when includeComponents is omitted, the stylesheet generate_css writes
\* has a block for every component selectable through includeComponents
\* (buttons, cards, modals, typography) that exists in cssRules.
C17_GenerateCssDefaultSet ==
    (/\ last.tool = "generate_css"
     /\ LastText.k = "css"
     /\ ~last.args.includeComponents.given) =>
        \A c \in {K.buttons, K.cards, K.modals, K.typography} :
            Get(Get(doc, K.cssRules), c).t = "obj" =>
                \E j \in LinesOfKind(LastText.lines, "selector") :
                    LastText.lines[j] = <<"selector", last.args.brand, c>>

VariableTools == {"get_brand_styles", "get_css_variables", "generate_css"}

RECURSIVE DeclsOf(_)
\* the variables of the categories given, in declaration order, fontFiles
\* left out: each as <<category, name, value>>
DeclsOf(categories) ==
    IF categories = <<>> THEN <<>>
    ELSE LET c == Head(categories)
         IN  (IF c.k = K.fontFiles \/ c.v.t # "obj" THEN <<>>
              ELSE [j \in 1..Len(c.v.e) |-> <<c.k, c.v.e[j].k, c.v.e[j].v>>])
             \o DeclsOf(Tail(categories))

RECURSIVE Attributed(_, _)
\* the declarations written in a block, each with the category named by the
\* last comment before it
Attributed(lines, category) ==
    IF lines = <<>> THEN <<>>
    ELSE IF Head(lines)[1] = "comment" THEN Attributed(Tail(lines), Head(lines)[2])
    ELSE IF Head(lines)[1] = "decl"
         THEN << <<category, Head(lines)[2], Head(lines)[3]>> >>
                  \o Attributed(Tail(lines), category)
    ELSE Attributed(Tail(lines), category)

\* the lines between ":root {" and its "}"
RootBlock(lines) ==
    LET r == CHOOSE j \in LinesOfKind(lines, "root") : TRUE
        c == Min({h \in LinesOfKind(lines, "close") : h > r})
    IN  SubSeq(lines, r + 1, c - 1)

\* the categories the invocation is to render: the brand's css, or the one
\* category asked for
RenderedCategories ==
    LET css == Get(Get(Get(doc, K.brands), last.args.brand), K.css)
    IN  IF last.tool = "get_css_variables" /\ last.args.category # <<>>
        THEN SelectSeq(ObjectEntries(css), LAMBDA en : en.k = last.args.category)
        ELSE ObjectEntries(css)

\* C18: the :root block written by get_brand_styles, get_css_variables and
\* generate_css holds exactly one declaration per variable of every rendered
\* category except fontFiles, none for a fontFiles variable, categories and
\* variables in declaration order, each declaration after a comment naming its
\* category.
C18_VariableBlock ==
    (/\ last.tool \in VariableTools
     /\ LastText.k = "css"
     /\ LinesOfKind(LastText.lines, "root") # {}) =>
        /\ Cardinality(LinesOfKind(LastText.lines, "root")) = 1
        /\ Attributed(RootBlock(LastText.lines), <<>>) = DeclsOf(RenderedCategories)
        /\ \A j \in LinesOfKind(LastText.lines, "decl") :
               \E r \in LinesOfKind(LastText.lines, "root") : r < j

\* a brand with two colour variables, a fontFiles variable and a radius was
\* rendered: three declarations in two categories
C18_Witness ==
    /\ last.tool \in VariableTools
    /\ LastText.k = "css"
    /\ LinesOfKind(LastText.lines, "root") # {}
    /\ \E en \in {RenderedCategories[j] : j \in 1..Len(RenderedCategories)} :
           en.k = K.fontFiles /\ en.v.e # <<>>
    /\ Len(DeclsOf(RenderedCategories)) = 3
    /\ Cardinality(LinesOfKind(LastText.lines, "decl")) = 3
    /\ Cardinality(LinesOfKind(LastText.lines, "comment")) = 2

\* the records of the search result that are about a node
RecordsOf(n) ==
    {j \in 1..Len(last.results) :
        last.results[j].path = join(n.path, <<".">>) /\ last.results[j].key = n.key}

\* the query is in the string, letter case ignored unless caseSensitive
ContainsQuery(str) ==
    IF last.args.caseSensitive THEN HasSubstring(str, last.args.query)
    ELSE HasSubstring(toLowerCase(str), toLowerCase(last.args.query))

\* C20: every document node has at most two records in the search result, and
\* at most one if its value is not a string; when its key contains the query
\* and its string value contains the query it has exactly two, identical in
\* path, key and value; records are never merged.
C20_SearchDuplication ==
    last.tool = "search_design_standards" =>
        \A n \in NodesUnder(doc, <<>>) :
            /\ Cardinality(RecordsOf(n)) <= 2
            /\ n.value.t # "str" => Cardinality(RecordsOf(n)) <= 1
            /\ \A j \in RecordsOf(n) : last.results[j].value = n.value
            /\ (/\ ContainsQuery(n.key)
                /\ n.value.t = "str"
                /\ ContainsQuery(n.value.s)) => Cardinality(RecordsOf(n)) = 2

\* usage.colors.primary = "Use Primary for actions", searched for "primary":
\* the node is in the result twice
C20_Witness ==
    /\ last.tool = "search_design_standards"
    /\ last.args.query = K.primary
    /\ \E n \in NodesUnder(doc, <<>>) :
           /\ n.key = K.primary
           /\ n.value.t = "str"
           /\ ContainsQuery(n.value.s)
           /\ Cardinality(RecordsOf(n)) = 2

RECURSIVE BaseBody(_)
\* the css strings a base block is to hold: the rule tree's own css and the
\* css of each direct child object other than hover, in declaration order
BaseBody(entries) ==
    IF entries = <<>> THEN <<>>
    ELSE LET en == Head(entries)
         IN  (IF en.k = K.css /\ en.v.t = "str" THEN <<en.v>>
              ELSE IF en.k # K.css /\ en.k # K.hover /\ en.v.t = "obj"
                      /\ \E j \in 1..Len(en.v.e) : en.v.e[j].k = K.css
                   THEN <<(CHOOSE c \in {en.v.e[j] : j \in 1..Len(en.v.e)} : c.k = K.css).v>>
              ELSE <<>>)
             \o BaseBody(Tail(entries))

\* C21: the CSS generateComponentCSS returns is the base block
\* .{prefix}-{component} holding, in declaration order, the rule tree's own css
\* and the css of each direct child object with a css key, the hover child
\* left out; then, iff the rule tree has a hover key, the block
\* .{prefix}-{component}:hover holding hover's css; nothing else.
C21_ComponentRuleRendering ==
    (last.tool = "get_css_rules" /\ LastText.k = "css") =>
        LET rules == Get(Get(doc, K.cssRules), last.args.component)
            prefix == IF last.args.brand = <<>>
                      THEN <<"c", "o", "m", "p", "o", "n", "e", "n", "t">>
                      ELSE last.args.brand
            body == BaseBody(rules.e)
            hasHover == \E j \in 1..Len(rules.e) : rules.e[j].k = K.hover
            hover == (CHOOSE en \in {rules.e[j] : j \in 1..Len(rules.e)} : en.k = K.hover).v
            hoverCss == (CHOOSE en \in {hover.e[j] : j \in 1..Len(hover.e)} : en.k = K.css).v
        IN  LastText.lines =
                << <<"selector", prefix, last.args.component>> >>
                \o [j \in 1..Len(body) |-> <<"css", body[j]>>]
                \o << <<"close">> >>
                \o (IF hasHover
                    THEN << <<"blank">>, <<"hover_selector", prefix, last.args.component>>,
                            <<"css", hoverCss>>, <<"close">> >>
                    ELSE <<>>)

\* a rule tree with its own css, a child with css and a hover child was
\* rendered: two css lines in the base block, then the hover block
C21_Witness ==
    /\ last.tool = "get_css_rules"
    /\ LastText.k = "css"
    /\ Len(BaseBody(Get(Get(doc, K.cssRules), last.args.component).e)) = 2
    /\ LinesOfKind(LastText.lines, "hover_selector") # {}
    /\ Len(LastText.lines) = 8

\* the URL an invocation with valid arguments is to GET
RequestedUrl(c) ==
    IF c.tool = "get_event_page" THEN TargetOf(c.args.url, c.args.site)
    ELSE EVENT_SITES[c.args.site].baseUrl \o <<"/", "s", "i", "t", "e", "m", "a", "p", ".", "x", "m", "l">>

\* the arguments pass the handler's validation
ValidArgs(c) ==
    \/ c.args.site \in DOMAIN EVENT_SITES
    \/ c.tool = "get_event_page" /\ TargetOf(c.args.url, "pmc") = c.args.url

\* C22: an invocation of a site-query tool issues one GET when its arguments
\* are valid and none when they are not, and never a second one; after a
\* non-success status or a network fault it returns an isError envelope whose
\* text holds the requested URL and the status code or the cause; after a
\* success the body is used as it was returned.
C22_SingleFetch ==
    /\ [](\A i \in DOMAIN calls :
            calls[i].tool \in EventTools =>
                LET c == calls[i]
                IN  /\ c.pc = "fetching" =>
                           ValidArgs(c) /\ c.fetched = <<>> /\ c.fetchUrl = RequestedUrl(c)
                    /\ (c.pc = "done" /\ ValidArgs(c)) => c.fetched = <<RequestedUrl(c)>>
                    /\ (c.pc = "done" /\ ~ValidArgs(c)) => c.fetched = <<>>
                    /\ (c.pc = "done" /\ c.resp.kind \in {"status", "fault"}) =>
                           /\ c.env.isError
                           /\ TextOf(i).k = "error"
                           /\ TextOf(i).message[2] = RequestedUrl(c)
                           /\ TextOf(i).message[4] =
                                  IF c.resp.kind = "status"
                                  THEN <<"HTTP error! status: ", c.resp.status>>
                                  ELSE <<"fetch failed">>
                    /\ (c.pc = "done" /\ c.resp.kind = "ok") =>
                           /\ ~c.env.isError
                           /\ c.tool = "fetch_sitemap" =>
                                  TextOf(i).urls = parseSitemap(c.resp.body)
                           /\ (c.tool = "get_event_page" /\ ~c.args.extractText) =>
                                  TextOf(i).body = c.resp.body)
    /\ [][\A i \in DOMAIN calls :
             /\ calls[i].pc = "done" => calls'[i].pc \in {"done", "idle"}
             /\ (calls[i].pc = "done" /\ calls'[i].pc = "done") => calls'[i] = calls[i]
             /\ calls[i].pc = "fetching" => calls'[i].pc \in {"fetching", "done"}]_vars

\* a GET answered with status 404 was turned into an isError envelope naming
\* the sitemap URL and the status
C22_Witness ==
    \E i \in DOMAIN calls :
        /\ calls[i].pc = "done"
        /\ calls[i].tool = "search_events"
        /\ calls[i].resp.kind = "status"
        /\ calls[i].fetched = <<RequestedUrl(calls[i])>>
        /\ calls[i].env.isError
        /\ TextOf(i).message[4] = <<"HTTP error! status: ", 404>>

\* C23: no tool invocation, succeeding or failing, changes the Design-Token
\* Document or the program that owns it: each invocation observes the
\* document loaded at process start (the Site Registry is the constant
\* EVENT_SITES, which no step can write).
C23_ReadOnlySharedData ==
    [][doc' = doc /\ server' = server]_vars

\* a failed invocation has returned and the document is the one loaded at start
C23_Witness ==
    /\ last.tool = "get_usage_guidelines"
    /\ last.args.category = K.spacing
    /\ doc = DocA
    /\ LastText.k = "json"

\* the envelope an invocation returns when it runs with no other in flight:
\* its own arguments and its own fetch response decide it
AloneEnvelope(c) ==
    IF ~ValidArgs(c)
    THEN IF c.args.site = undefined
         THEN [content |-> <<[type |-> "text", text |-> [k |-> "need_url_or_site"]]>>,
               isError |-> TRUE]
         ELSE UnknownSiteEnvelope(c.args.site)
    ELSE LET r == fetchContent(RequestedUrl(c), c.resp)
         IN  IF r.thrown THEN CaughtEnvelope(r.message)
             ELSE IF c.tool = "fetch_sitemap"
             THEN Envelope(fetch_sitemap_text(c.args.site, r.value), FALSE)
             ELSE IF c.tool = "get_event_page"
             THEN Envelope([k |-> "content", url |-> RequestedUrl(c),
                            body |-> displayContentOf(r.value, c.args.extractText)], FALSE)
             ELSE IF c.tool = "search_events"
             THEN search_events_env(c.args.site, c.args.pattern, c.args.caseInsensitive,
                                    r.value)
             ELSE Envelope(list_all_events_text(c.args.site, c.args.limit, r.value), FALSE)

\* C24: with several site-query invocations in flight and their fetches
\* completing in any order, every returned invocation holds the envelope it
\* would return if it ran alone with the same arguments and fetch response,
\* and a step of one invocation changes no other invocation.
C24_ConcurrentIndependence ==
    /\ [](\A i \in DOMAIN calls :
            calls[i].pc = "done" => calls[i].env = AloneEnvelope(calls[i]))
    /\ [][\A i, j \in DOMAIN calls :
             (i # j /\ calls'[i] # calls[i]) => calls'[j] = calls[j]]_vars

\* two invocations of different tools have both returned, one from a
\* successful fetch and one from a failed fetch
C24_Witness ==
    \E i, j \in DOMAIN calls :
        /\ i # j
        /\ calls[i].pc = "done" /\ calls[i].tool = "search_events"
        /\ calls[i].resp.kind = "ok" /\ TextOf(i).k = "found"
        /\ calls[j].pc = "done" /\ calls[j].tool = "list_all_events"
        /\ calls[j].resp.kind = "status"

(***************************************************************************)
(* Lenient parsing of sitemaps                                             *)
(***************************************************************************)
\* index of the first </loc> atom after index i, 0 if none
NextLocClose(atoms, i) ==
    LET J == {j \in (i + 1)..Len(atoms) : atoms[j] = LocClose}
    IN  IF J = {} THEN 0 ELSE Min(J)

\* the text between atoms i and j, as written
Between(atoms, i, j) == Flatten(SubSeq(atoms, i + 1, j - 1))

RECURSIVE MarkedTextsFrom(_, _)
\* reading left to right from index i: the text between each <loc> and the
\* next </loc>; reading goes on after that </loc>
MarkedTextsFrom(atoms, i) ==
    IF i > Len(atoms) THEN <<>>
    ELSE IF atoms[i] # LocOpen \/ NextLocClose(atoms, i) = 0
         THEN MarkedTextsFrom(atoms, i + 1)
         ELSE <<Between(atoms, i, NextLocClose(atoms, i))>>
                  \o MarkedTextsFrom(atoms, NextLocClose(atoms, i) + 1)

\* C26: parseSitemap returns a list for every input, well formed or not; a
\* <loc> with no later </loc> contributes nothing (no more entries than
\* </loc> markers that follow a <loc>); every entry is the text between a
\* <loc> and the next </loc> exactly as written; and on a text whose entries
\* lie on one line each, every marked text is returned, in order, as many
\* times as it occurs.
C26_LenientParsing ==
    pcParse = "done" =>
        /\ urls \in Seq(Seq(STRING))
        /\ Len(urls) <= Cardinality({j \in DOMAIN xmlAtoms :
               /\ xmlAtoms[j] = LocClose
               /\ \E i \in 1..(j - 1) : xmlAtoms[i] = LocOpen})
        /\ \A k \in DOMAIN urls :
               \E i \in DOMAIN xmlAtoms :
                   /\ xmlAtoms[i] = LocOpen
                   /\ NextLocClose(xmlAtoms, i) # 0
                   /\ urls[k] = Between(xmlAtoms, i, NextLocClose(xmlAtoms, i))
        /\ (\A i \in DOMAIN xmlAtoms : xmlAtoms[i] # <<"\n">>)
               => urls = MarkedTextsFrom(xmlAtoms, 1)

\* the same URL is marked twice and returned twice
C26_Witness ==
    /\ pcParse = "done"
    /\ xmlAtoms = <<LocOpen, <<"a">>, LocClose, LocOpen, <<"a">>, LocClose>>
    /\ urls = <<<<"a">>, <<"a">>>>

\* an unclosed <loc> after a complete entry adds nothing
C26_WitnessUnclosed ==
    /\ pcParse = "done"
    /\ xmlAtoms = <<LocOpen, <<"a">>, LocClose, LocOpen, <<"B">>>>
    /\ urls = <<<<"a">>>>

(***************************************************************************)
(* Search: a matching path matches for the whole subtree                   *)
(***************************************************************************)
\* the node and everything below it
Subtree(n) == {n} \cup NodesUnder(n.value, n.path)

\* the records a node has because its string value contains the query
ValueRecords(n) == IF n.value.t = "str" /\ ContainsQuery(n.value.s) THEN 1 ELSE 0

\* the records a node has from the test of its key and path
KeyPathRecords(n) == Cardinality(RecordsOf(n)) - ValueRecords(n)

RECURSIVE KeyPathRecordsIn(_)
\* the key/path records of a set of nodes
KeyPathRecordsIn(S) ==
    IF S = {} THEN 0
    ELSE LET x == CHOOSE y \in S : TRUE IN KeyPathRecords(x) + KeyPathRecordsIn(S \ {x})

\* C30: in a search that ignores letter case, or whose query is all lower
\* case, a node whose dotted path contains the query is recorded by its path,
\* and so is every node below it; the key/path records of such a subtree are
\* as many as its nodes.
C30_SearchPathPropagation ==
    (/\ last.tool = "search_design_standards"
     /\ ~last.args.caseSensitive \/ last.args.query = toLowerCase(last.args.query))
    => \A n \in NodesUnder(doc, <<>>) :
           ContainsQuery(join(n.path, <<".">>))
           => /\ \A d \in Subtree(n) : KeyPathRecords(d) = 1
              /\ KeyPathRecordsIn(Subtree(n)) = Cardinality(Subtree(n))

\* "css" searched without regard to case: brands.pmc.css matches by its path,
\* and brands.pmc.css.colors.--primary below it, whose key and value do not
\* contain the query, is recorded once
C30_Witness ==
    /\ last.tool = "search_design_standards"
    /\ last.args.query = K.css
    /\ ~last.args.caseSensitive
    /\ doc = DocA
    /\ \E n \in NodesUnder(doc, <<>>) :
           /\ n.path = <<K.brands, K.pmc, K.css>>
           /\ Cardinality(Subtree(n)) >= 5
           /\ \E d \in Subtree(n) :
                  /\ d.path = <<K.brands, K.pmc, K.css, K.colors,
                                <<"-", "-", "p", "r", "i", "m", "a", "r", "y">>>>
                  /\ ~ContainsQuery(d.key)
                  /\ Cardinality(RecordsOf(d)) = 1

(***************************************************************************)
(* Claims about the HTTP endpoint                                          *)
(***************************************************************************)
\* the /mcp requests whose handling starts in this step
Received ==
    {i \in DOMAIN requests : /\ requests[i].pc = "idle" /\ requests'[i].pc # "idle"
                             /\ requests'[i].kind \in KindArgs}

\* the /mcp requests answered in this step
Answered == {i \in DOMAIN requests : requests[i].pc # "done" /\ requests'[i].pc = "done"}

\* C19: a /mcp request whose mcp-session-id is in the session map is handled
\* by the stored transport and makes no transport or server instance; a
\* request with no header, or with an id not in the map, makes a new transport
\* with its own server instance, and by the time it is answered that session
\* is in the map.
C19_SessionMultiplexing ==
    [][ /\ \A i \in Received :
              LET h == requests'[i].header
              IN  IF h # <<>> /\ \E en \in transports : en.id = h[1]
                  THEN /\ Len(instances') = Len(instances)
                       /\ \E en \in transports :
                              en.id = h[1] /\ en.transport = requests'[i].transport
                  ELSE /\ Len(instances') = Len(instances) + 1
                       /\ requests'[i].transport = Len(instances')
                       /\ instances'[Len(instances')].mcp \in {"created", "connected"}
        /\ \A i \in Answered :
              requests'[i].created =>
                  \E en \in transports' : en.transport = requests'[i].transport
      ]_vars

\* the transports that get their session in this step, and those closed in it
Initialised == {t \in DOMAIN instances : ~instances[t].initialized /\ instances'[t].initialized}
Closed == {t \in DOMAIN instances : ~instances[t].closed /\ instances'[t].closed}

\* C25: the session map changes only by gaining the entry of a session that is
\* initialised in that step or by losing the entry of a session whose
\* transport closes in that step; a request for a known session that does not
\* close it, a refused request, GET / and GET /healthz leave the map as it was.
C25_SessionMapMutationPaths ==
    [][ /\ transports' # transports =>
              \/ \E t \in Initialised :
                     /\ instances'[t].sessionId # <<>>
                     /\ transports' = transports
                            \cup {[id |-> instances'[t].sessionId[1], transport |-> t]}
              \/ \E t \in Closed :
                     /\ transports' # transports
                     /\ transports' = {en \in transports : en.id # instances[t].sessionId[1]}
        /\ \A i \in DOMAIN requests :
              (/\ requests[i].pc # "done" /\ requests'[i].pc = "done"
               /\ \/ requests'[i].kind \in {"healthz", "root"}
                  \/ requests'[i].status >= 400
                  \/ ~requests'[i].created /\ requests'[i].kind = "call")
              => transports' = transports
        /\ \A i \in DOMAIN requests :
              requests[i].pc = "done" /\ requests'[i].pc = "idle" => transports' = transports
      ]_vars

\* two sessions are in the map and a call for one of them has been answered
C25_Witness ==
    /\ Cardinality(transports) = 2
    /\ \E i \in DOMAIN requests :
           /\ requests[i].pc = "done"
           /\ requests[i].kind = "call"
           /\ requests[i].status = 200
           /\ \E en \in transports : en.transport = requests[i].transport

\* the ids the session-id generator has produced so far
Generated == {t \in DOMAIN instances : instances[t].sessionId = <<t>>}

\* the keys of the session map
Keys(map) == {en.id : en \in map}

\* C27: every key of the session map is an id the server generated, and is
\* mapped (once) to the transport whose sessionId is that key; an id that a
\* request carries and that is not in the map is not a key after the request
\* has been handled either.
C27_KeyIntegrity ==
    /\ [](/\ Keys(transports) \subseteq Generated
          /\ \A en \in transports : instances[en.transport].sessionId = <<en.id>>
          /\ \A en1, en2 \in transports : en1.id = en2.id => en1 = en2)
    /\ [][\A i \in DOMAIN requests :
              LET h == requests'[i].header
              IN  (/\ requests[i].pc # "done" /\ requests'[i].pc = "done"
                   /\ h # <<>>
                   /\ h[1] \notin Keys(transports))
                  => h[1] \notin Keys(transports')]_vars

\* an initialize request carrying an id that is not in the map has been
\* answered: its session is in the map under the generated id
C27_Witness ==
    \E i \in DOMAIN requests :
        /\ requests[i].pc = "done"
        /\ requests[i].kind = "initialize"
        /\ requests[i].created
        /\ requests[i].header = <<0>>
        /\ requests[i].status = 200
        /\ [id |-> requests[i].transport, transport |-> requests[i].transport] \in transports
        /\ 0 \notin Keys(transports)

\* the sessions whose transport has closed
ClosedSessions == {t \in DOMAIN instances : instances[t].closed}

\* C28: once a transport has closed its session id is not in the session map;
\* a later request carrying that id is given a transport made for it, never
\* the closed one; and the step in which a transport closes removes no entry
\* of another session.
C28_SessionClose ==
    /\ [](\A t \in ClosedSessions :
              /\ instances[t].sessionId[1] \notin Keys(transports)
              /\ \A en \in transports : en.transport # t)
    /\ [][/\ \A i \in Received :
                 \A t \in ClosedSessions :
                     requests'[i].header = instances[t].sessionId
                     => /\ requests'[i].created
                        /\ requests'[i].transport = Len(instances) + 1
                        /\ requests'[i].transport # t
                        /\ ~instances'[requests'[i].transport].closed
          /\ \A t \in Closed :
                 \A en \in transports : en.transport # t => en \in transports'
         ]_vars

\* a session was closed while another was open, the other is still in the
\* map, and a request carrying the closed session's id has been given a new
\* transport
C28_Witness ==
    \E t \in ClosedSessions :
        /\ \E en \in transports : en.transport # t
        /\ \E i \in DOMAIN requests :
               /\ requests[i].pc \in {"connecting", "done"}
               /\ requests[i].header = instances[t].sessionId
               /\ requests[i].created
               /\ requests[i].transport > t

\* requests i and j are first contacts whose handling overlaps: each has made
\* its transport and neither has been answered
Overlapping(i, j) ==
    /\ i # j
    /\ requests[i].pc = "connecting" /\ requests[i].created
    /\ requests[j].pc = "connecting" /\ requests[j].created

\* requests i and j made their own transports, both initialised a session and
\* both have been answered
BothInitialised(i, j) ==
    /\ i # j
    /\ \A k \in {i, j} : /\ requests[k].pc = "done"
                         /\ requests[k].created
                         /\ requests[k].kind = "initialize"
                         /\ requests[k].status = 200

\* C29: two /mcp requests without a known session id whose handling is
\* interleaved each get a transport and a server instance of their own; the
\* two sessions get different ids; and when both have initialised, the map
\* holds an entry for each.
C29_ConcurrentFirstContacts ==
    \A i, j \in DOMAIN requests :
        /\ (i # j /\ requests[i].created /\ requests[j].created
                  /\ requests[i].pc # "idle" /\ requests[j].pc # "idle")
           => /\ requests[i].transport # requests[j].transport
              /\ instances[requests[i].transport].mcp \in {"created", "connected"}
              /\ instances[requests[j].transport].mcp \in {"created", "connected"}
              /\ (/\ instances[requests[i].transport].sessionId # <<>>
                  /\ instances[requests[j].transport].sessionId # <<>>)
                 => instances[requests[i].transport].sessionId
                        # instances[requests[j].transport].sessionId
        /\ BothInitialised(i, j)
           => \/ \A k \in {i, j} :
                     [id |-> instances[requests[k].transport].sessionId[1],
                      transport |-> requests[k].transport] \in transports
              \/ \E k \in {i, j} : instances[requests[k].transport].closed

\* two initialize requests are in flight together, each with its transport,
\* neither answered yet
C29_InFlightTogether ==
    \E i, j \in DOMAIN requests :
        /\ Overlapping(i, j)
        /\ requests[i].kind = "initialize"
        /\ requests[j].kind = "initialize"
        /\ requests[i].header = <<>>
        /\ requests[j].header = <<0>>

\* both first contacts have initialised and both sessions are in the map
C29_Witness ==
    \E i, j \in DOMAIN requests :
        /\ BothInitialised(i, j)
        /\ Cardinality({en \in transports :
               en.transport \in {requests[i].transport, requests[j].transport}}) = 2

====
